---- MODULE Spec2Model ----
(***************************************************************************)
(* Model of the booking back office (controllers/bookingController.js and  *)
(* the Booking schema).  A stored booking is the document the handlers     *)
(* read and write; a request is (operation, caller, id, body); a response  *)
(* is the status code together with the PDF headers and the lines written  *)
(* to the PDF document.                                                    *)
(*                                                                         *)
(* JavaScript values are modelled as tagged records so that undefined,     *)
(* null, "", 0, [] and {} keep the truthiness the handlers branch on.      *)
(* The store keeps the values the controller hands to the model layer;     *)
(* the validators written in the schema (required, enum, minlength,        *)
(* maxlength) are applied on create and save.                              *)
(***************************************************************************)
EXTENDS Integers, Sequences, FiniteSets, TLC

VARIABLES bookings, nextId, req, res, inquiries, webhookEnv, webhookTasks,
          adminApiKey, agents, registrations

vars == <<bookings, nextId, req, res, inquiries, webhookEnv, webhookTasks,
          adminApiKey, agents, registrations>>

\* The Agent collection and the registerAgent calls in flight; no booking
\* or inquiry handler writes them.
agentVars == <<agents, registrations>>

\* The inquiry collection, the webhook configuration of the process, the
\* webhook forwards that were started, the API key of the manual forward
\* and the agent registrations; no booking handler touches them.
inquiryVars == <<inquiries, webhookEnv, webhookTasks, adminApiKey, agentVars>>

(***************************************************************************)
(* Bounds of the model.                                                    *)
(***************************************************************************)
MaxBookings == 1
MaxPnrLen == 6
MaxList == 2
MaxInquiries == 2
MaxResponses == 1
MaxForwards == 3
MaxAgents == 3

(***************************************************************************)
(* JavaScript values.                                                      *)
(***************************************************************************)
Undefined == [k |-> "undefined"]
Null == [k |-> "null"]
Str(s) == [k |-> "string", s |-> s]
Num(n) == [k |-> "number", n |-> n]
Arr(items) == [k |-> "array", items |-> items]
Obj(fields) == [k |-> "object", f |-> fields]

\* A string given by its characters.
Chars(cs) == [k |-> "chars", cs |-> cs]

IsArray(v) == v.k = "array"

\* ToBoolean: undefined, null, "" and 0 are falsy; arrays and objects are truthy.
Truthy(v) ==
  CASE v.k = "undefined" -> FALSE
    [] v.k = "null" -> FALSE
    [] v.k = "string" -> v.s # ""
    [] v.k = "number" -> v.n # 0
    [] OTHER -> TRUE

Nullish(v) == v.k \in {"undefined", "null"}

\* a || b
Or(a, b) == IF Truthy(a) THEN a ELSE b

\* a ?? b
Coalesce(a, b) == IF Nullish(a) THEN b ELSE a

\* v?.name : undefined when v is nullish or has no such property
Get(v, name) ==
  IF v.k = "object" /\ name \in DOMAIN v.f THEN v.f[name] ELSE Undefined

\* v.length of an array (undefined.length is never evaluated by the handlers)
Length(v) == IF v.k = "array" THEN Len(v.items) ELSE 0

\* String(v) for the values the ownership checks compare
StringOf(v) ==
  CASE v.k = "string" -> v.s
    [] v.k = "null" -> "null"
    [] OTHER -> "undefined"

(***************************************************************************)
(* Callers.  protect attaches req.user = {_id, role}; the user is loaded   *)
(* from the User collection first and from the Agent collection otherwise. *)
(* Booking.agent is a reference into the User collection.                  *)
(***************************************************************************)
Callers ==
  { [id |-> "adm", role |-> "admin"],
    [id |-> "u1", role |-> "agent"],
    [id |-> "g1", role |-> "agent"] }

UserCollection == {"adm", "u1"}

\* populate("agent", ...): the referenced User document, or null when the
\* reference is empty or names no document of the User collection.
Populate(agent) ==
  IF agent.k = "string" /\ agent.s \in UserCollection THEN agent ELSE Null

(***************************************************************************)
(* PNR strings are sequences of characters.  The empty sequence stands for *)
(* an absent pnr: undefined and "" are both falsy and the handlers only    *)
(* test the truthiness of a pnr before using it.                           *)
(***************************************************************************)
NoPnr == <<>>

LowerChars == {"a", "b", "c"}
UpperChars == {"A", "B", "C"}
DigitChars == {"1", "2", "3"}
AlnumChars == LowerChars \cup UpperChars \cup DigitChars

UpperChar(c) ==
  CASE c = "a" -> "A"
    [] c = "b" -> "B"
    [] c = "c" -> "C"
    [] OTHER -> c

\* s.toUpperCase()
ToUpperCase(s) == [i \in 1..Len(s) |-> UpperChar(s[i])]

IsAlnum(c) == c \in AlnumChars

\* s.replace(/[^A-Za-z0-9]/g, "")
StripNonAlnum(s) == SelectSeq(s, IsAlnum)

\* String(pnr).replace(/[^A-Za-z0-9]/g, "").toUpperCase()
CleanPNR(pnr) == ToUpperCase(StripNonAlnum(pnr))

\* Variant: the validator keeps only the lower bound of the length.
PnrLengthValidMinOnly(pnr) == pnr = NoPnr \/ Len(pnr) >= 6

\* pnr: { type: String, minlength: 6, maxlength: 6 }
PnrLengthValid(pnr) == pnr = NoPnr \/ (Len(pnr) >= 6 /\ Len(pnr) <= 6)

(***************************************************************************)
(* The Booking schema's validators.                                        *)
(***************************************************************************)
StatusEnum == {"pending", "confirmed", "cancelled"}

SchemaValid(b) ==
  /\ Truthy(b.customerName)
  /\ Truthy(b.customerEmail)
  /\ Truthy(b.package)
  /\ Truthy(b.date)
  /\ b.status.k = "string" /\ b.status.s \in StatusEnum
  /\ PnrLengthValid(b.pnr)

(***************************************************************************)
(* Request bodies and stored documents.                                    *)
(***************************************************************************)
EmptyBody ==
  [ customerName |-> Undefined, customerEmail |-> Undefined,
    package |-> Undefined, date |-> Undefined,
    agent |-> Undefined, status |-> Undefined, approvalStatus |-> Undefined,
    pnr |-> NoPnr,
    contactNumber |-> Undefined, departureDate |-> Undefined,
    returnDate |-> Undefined, additionalServices |-> Undefined,
    paymentMethod |-> Undefined, flightClass |-> Undefined,
    flights |-> Undefined, hotels |-> Undefined, visas |-> Undefined,
    transportation |-> Undefined, transport |-> Undefined,
    costing |-> Undefined, flightPayments |-> Undefined,
    hotel |-> Undefined, visa |-> Undefined, flight |-> Undefined,
    paymentReceived |-> Undefined, paymentDue |-> Undefined,
    payment |-> Undefined ]

\* A body that carries the four required fields of createBooking.
RequiredBody ==
  [EmptyBody EXCEPT !.customerName = Str("A. Khan"),
                    !.customerEmail = Str("a@x.com"),
                    !.package = Str("Umrah 10D"),
                    !.date = Str("2024-05-01")]

\* The document Booking.create receives from createBooking.  status falls
\* back to "pending"; approvalStatus is not set; pricing, departureCity and
\* arrivalCity are read by getBookingPdf but written by no handler.
NewBooking(caller, body) ==
  [ customerName |-> body.customerName,
    customerEmail |-> body.customerEmail,
    package |-> body.package,
    date |-> body.date,
    status |-> Or(body.status, Str("pending")),
    agent |-> Or(body.agent, Str(caller.id)),
    approvalStatus |-> Undefined,
    contactNumber |-> body.contactNumber,
    departureDate |-> body.departureDate,
    returnDate |-> body.returnDate,
    additionalServices |-> body.additionalServices,
    paymentMethod |-> body.paymentMethod,
    flightClass |-> Or(Get(body.flight, "flightClass"), Undefined),
    paymentReceived |-> body.paymentReceived,
    paymentDue |-> body.paymentDue,
    payment |-> body.payment,
    pnr |-> IF body.pnr # NoPnr THEN ToUpperCase(body.pnr) ELSE NoPnr,
    flights |-> Or(body.flights, Undefined),
    hotels |-> IF IsArray(body.hotels) THEN body.hotels ELSE Undefined,
    visas |-> Or(body.visas, Undefined),
    transportation |-> Or(body.transportation, Undefined),
    transport |-> Or(body.transport, Undefined),
    costing |-> Or(body.costing, Undefined),
    flightPayments |-> Or(body.flightPayments, Undefined),
    hotel |-> Or(body.hotel, Undefined),
    visa |-> Or(body.visa, Undefined),
    flight |-> Or(body.flight, Undefined),
    pricing |-> Undefined,
    departureCity |-> Undefined,
    arrivalCity |-> Undefined ]

(***************************************************************************)
(* Requests and responses.                                                 *)
(***************************************************************************)
NoCaller == [id |-> "none", role |-> "none"]

Request(op, caller, id, body) ==
  [op |-> op, caller |-> caller, id |-> id, body |-> body]

NoRequest == Request("none", NoCaller, 0, EmptyBody)

\* code 0: no response was sent.  threw: the handler ended by an exception
\* that no try/catch of the handler caught.
Response(code, msg, data) ==
  [code |-> code, msg |-> msg, data |-> data,
   threw |-> FALSE, headers |-> FALSE, doc |-> <<>>]

\* res.status(code).json({ message })
Message(code, msg) == Response(code, msg, Undefined)

\* res.status(code).json(data)
Json(code, data) == Response(code, "", data)

NoResponse == Response(0, "", Undefined)

\* An exception escapes the async handler: no response is sent.
Threw == [NoResponse EXCEPT !.threw = TRUE]

Exists(id) == id \in DOMAIN bookings

Ids == 1..MaxBookings

\* The ids a request may name: the ids the store can hold and one that is
\* never stored.
RequestIds == 1..(MaxBookings + 1)

\* The store with document b saved under id.
Saved(id, b) == [i \in DOMAIN bookings \cup {id} |-> IF i = id THEN b ELSE bookings[i]]

\* Variant: a soft delete; the document stays in the store.
RemovedSoftly(id) == bookings

\* The store without id.
Removed(id) == [i \in DOMAIN bookings \ {id} |-> bookings[i]]

(***************************************************************************)
(* createBooking: POST /api/bookings (protect).                            *)
(***************************************************************************)
CreateBooking(caller, body) ==
  /\ nextId <= MaxBookings
  /\ req' = Request("createBooking", caller, 0, body)
  /\ UNCHANGED inquiryVars
  /\ IF \/ ~Truthy(body.customerName) \/ ~Truthy(body.customerEmail)
        \/ ~Truthy(body.package) \/ ~Truthy(body.date)
     THEN /\ res' = Message(400, "Missing required fields.")
          /\ UNCHANGED <<bookings, nextId>>
     ELSE IF body.pnr # NoPnr /\ Len(CleanPNR(body.pnr)) # 6
     THEN /\ res' = Message(400, "PNR must be exactly 6 characters.")
          /\ UNCHANGED <<bookings, nextId>>
     ELSE IF SchemaValid(NewBooking(caller, body))
     THEN /\ bookings' = Saved(nextId, NewBooking(caller, body))
          /\ nextId' = nextId + 1
          /\ res' = Json(201, NewBooking(caller, body))
     ELSE \* Booking.create rejects: the catch answers 400 with error.message
          /\ res' = Message(400, "Booking validation failed")
          /\ UNCHANGED <<bookings, nextId>>

(***************************************************************************)
(* updateBooking: PUT /api/bookings/:id (protect).                         *)
(***************************************************************************)
\* Variant: the field is assigned whether or not the body provides it.
IfProvidedAlways(incoming, stored) == incoming

\* if (req.body.x !== undefined) booking.x = req.body.x
IfProvided(incoming, stored) == IF incoming # Undefined THEN incoming ELSE stored

\* o with property name set to v
SetField(o, name, v) ==
  Obj([n \in (DOMAIN o.f) \cup {name} |-> IF n = name THEN v ELSE o.f[n]])

EmptyObject == Obj([n \in {} |-> Undefined])

\* booking.pnr = cleanPNR, when req.body.pnr is truthy
UpdatedPnr(stored, incoming) ==
  IF incoming # NoPnr THEN CleanPNR(incoming) ELSE stored

\* The document after the assignments of updateBooking, before save().
UpdatedBooking(b, body) ==
  [ b EXCEPT
    !.pnr = UpdatedPnr(b.pnr, body.pnr),
    !.customerName = Coalesce(body.customerName, b.customerName),
    !.customerEmail = Coalesce(body.customerEmail, b.customerEmail),
    !.package = Coalesce(body.package, b.package),
    !.date = Coalesce(body.date, b.date),
    !.status = Coalesce(body.status, b.status),
    !.agent = IfProvided(body.agent, b.agent),
    !.flights = IfProvided(body.flights, b.flights),
    !.hotels = IfProvided(body.hotels, b.hotels),
    !.visas = IfProvided(body.visas, b.visas),
    !.transportation = IfProvided(body.transportation, b.transportation),
    !.transport = IfProvided(body.transport, b.transport),
    !.costing = IfProvided(body.costing, b.costing),
    !.flightPayments = IfProvided(body.flightPayments, b.flightPayments),
    !.hotel = IfProvided(body.hotel, b.hotel),
    !.visa = IfProvided(body.visa, b.visa),
    !.contactNumber = IfProvided(body.contactNumber, b.contactNumber),
    !.departureDate = IfProvided(body.departureDate, b.departureDate),
    !.returnDate = IfProvided(body.returnDate, b.returnDate),
    !.additionalServices = IfProvided(body.additionalServices, b.additionalServices),
    !.approvalStatus = IfProvided(body.approvalStatus, b.approvalStatus),
    !.flightClass = IfProvided(body.flightClass, b.flightClass),
    !.flight =
       IF Get(body.flight, "flightClass") # Undefined
       THEN SetField(IF Truthy(b.flight) THEN b.flight ELSE EmptyObject,
                     "flightClass", Get(body.flight, "flightClass"))
       ELSE b.flight,
    !.paymentReceived = IfProvided(body.paymentReceived, b.paymentReceived),
    !.paymentDue = IfProvided(body.paymentDue, b.paymentDue),
    !.payment = IfProvided(body.payment, b.payment),
    !.paymentMethod = IfProvided(body.paymentMethod, b.paymentMethod) ]

\* booking.agent ? String(booking.agent) === String(req.user._id)
\*               : req.user.role === "admin"
UpdateIsOwner(b, caller) ==
  IF Truthy(b.agent) THEN StringOf(b.agent) = caller.id ELSE caller.role = "admin"

UpdateBooking(caller, id, body) ==
  /\ req' = Request("updateBooking", caller, id, body)
  /\ UNCHANGED inquiryVars
  /\ UNCHANGED nextId
  /\ IF ~Exists(id)
     THEN res' = Message(404, "Booking not found") /\ UNCHANGED bookings
     ELSE IF caller.role # "admin" /\ ~UpdateIsOwner(bookings[id], caller)
     THEN res' = Message(403, "Not authorized") /\ UNCHANGED bookings
     ELSE IF body.pnr # NoPnr /\ Len(CleanPNR(body.pnr)) # 6
     THEN /\ res' = Message(400, "PNR must be exactly 6 characters.")
          /\ UNCHANGED bookings
     ELSE IF SchemaValid(UpdatedBooking(bookings[id], body))
     THEN /\ bookings' = Saved(id, UpdatedBooking(bookings[id], body))
          /\ res' = Json(200, UpdatedBooking(bookings[id], body))
     ELSE \* save() rejects and nothing catches it
          res' = Threw /\ UNCHANGED bookings

(***************************************************************************)
(* deleteBooking: DELETE /api/bookings/:id (protect).                      *)
(***************************************************************************)
DeleteBooking(caller, id) ==
  /\ req' = Request("deleteBooking", caller, id, EmptyBody)
  /\ UNCHANGED inquiryVars
  /\ UNCHANGED nextId
  /\ IF ~Exists(id)
     THEN res' = Message(404, "Booking not found") /\ UNCHANGED bookings
     ELSE IF caller.role # "admin" /\ StringOf(bookings[id].agent) # caller.id
     THEN res' = Message(403, "Not authorized") /\ UNCHANGED bookings
     ELSE /\ bookings' = Removed(id)
          /\ res' = Message(200, "Booking removed")

(***************************************************************************)
(* getBookingById: GET /api/bookings/:id (protect).                        *)
(***************************************************************************)
\* booking.agent && booking.agent._id ? booking.agent._id.equals(req.user._id)
\*                                    : String(booking.agent) === String(req.user._id)
ReadIsOwner(agent, caller) ==
  IF Truthy(agent) THEN agent.s = caller.id ELSE StringOf(agent) = caller.id

GetBookingById(caller, id) ==
  /\ req' = Request("getBookingById", caller, id, EmptyBody)
  /\ UNCHANGED inquiryVars
  /\ UNCHANGED <<bookings, nextId>>
  /\ IF ~Exists(id)
     THEN res' = Message(404, "Booking not found")
     ELSE IF ~ReadIsOwner(Populate(bookings[id].agent), caller) /\ caller.role # "admin"
     THEN res' = Message(403, "Not authorized")
     ELSE res' = Json(200, bookings[id])

(***************************************************************************)
(* approveBooking and rejectBooking.                                       *)
(***************************************************************************)
\* Variant: only approvalStatus is set.
ApprovedOnlyApproval(b) == [b EXCEPT !.approvalStatus = Str("approved")]

\* booking.approvalStatus = "approved"; booking.status = "confirmed"
Approved(b) ==
  [b EXCEPT !.approvalStatus = Str("approved"), !.status = Str("confirmed")]

\* booking.approvalStatus = "rejected"; booking.status = "cancelled"
Rejected(b) ==
  [b EXCEPT !.approvalStatus = Str("rejected"), !.status = Str("cancelled")]

ApproveBooking(caller, id) ==
  /\ req' = Request("approveBooking", caller, id, EmptyBody)
  /\ UNCHANGED inquiryVars
  /\ UNCHANGED nextId
  /\ IF ~Exists(id)
     THEN res' = Message(404, "Booking not found") /\ UNCHANGED bookings
     ELSE IF caller.role # "admin"
     THEN res' = Message(403, "Not authorized") /\ UNCHANGED bookings
     ELSE IF SchemaValid(Approved(bookings[id]))
     THEN /\ bookings' = Saved(id, Approved(bookings[id]))
          /\ res' = Json(200, Approved(bookings[id]))
     ELSE res' = Message(500, "Booking validation failed") /\ UNCHANGED bookings

RejectBooking(caller, id) ==
  /\ req' = Request("rejectBooking", caller, id, EmptyBody)
  /\ UNCHANGED inquiryVars
  /\ UNCHANGED nextId
  /\ IF ~Exists(id)
     THEN res' = Message(404, "Booking not found") /\ UNCHANGED bookings
     ELSE IF caller.role # "admin"
     THEN res' = Message(403, "Not authorized") /\ UNCHANGED bookings
     ELSE IF SchemaValid(Rejected(bookings[id]))
     THEN /\ bookings' = Saved(id, Rejected(bookings[id]))
          /\ res' = Json(200, Rejected(bookings[id]))
     ELSE res' = Message(500, "Booking validation failed") /\ UNCHANGED bookings

(***************************************************************************)
(* getBookingPdf: GET /api/bookings/:id/pdf (protect).                     *)
(* The document is the sequence of lines written with doc.text; a heading  *)
(* is a line written with { underline: true } in the section font.         *)
(***************************************************************************)
Line(kind, t, n, v) == [kind |-> kind, t |-> t, n |-> n, v |-> v]

Heading(t) == Line("heading", t, 0, Undefined)

Text(t, v) == Line("text", t, 0, v)

Item(t, n, v) == Line("text", t, n, v)

\* Stands for the RangeError of toISOString() on an invalid Date.
RangeError == Line("throw", "RangeError: Invalid time value", 0, Undefined)

\* The placeholder dash.
Dash == Str("-")

RECURSIVE Concat(_)
Concat(ss) == IF Len(ss) = 0 THEN <<>> ELSE Head(ss) \o Concat(Tail(ss))

\* A multi-line string, given by its lines before trimming.
Multiline(lines) == [k |-> "text", lines |-> lines]

\* line.trim(), for the lines of the sample itineraries
Trim(l) ==
  CASE l = " " -> ""
    [] l = " PK 742 JED-ISB " -> "PK 742 JED-ISB"
    [] OTHER -> l

\* itinerary.split('\n').filter(l => l.trim()), each line then trimmed
ItineraryLines(v) ==
  LET raw == IF v.k = "text" THEN v.lines ELSE <<v.s>>
      NonBlank(l) == Trim(l) # ""
      kept == SelectSeq(raw, NonBlank)
  IN  [i \in 1..Len(kept) |-> Trim(kept[i])]

\* (s).toUpperCase() of a status word
UpperWord(v) ==
  CASE v.s = "pending" -> Str("PENDING")
    [] v.s = "confirmed" -> Str("CONFIRMED")
    [] v.s = "cancelled" -> Str("CANCELLED")
    [] v.s = "approved" -> Str("APPROVED")
    [] v.s = "rejected" -> Str("REJECTED")
    [] OTHER -> v

\* Values that new Date(v) parses, with the first ten characters of
\* toISOString().
IsoDay(v) ==
  CASE v.s = "2024-05-01" -> Str("2024-05-01")
    [] v.s = "2024-05-09T18:30:00.000Z" -> Str("2024-05-09")
    [] OTHER -> Undefined

ParsesAsDate(v) == v.k = "string" /\ IsoDay(v) # Undefined

\* v ? new Date(v).toISOString().slice(0, 10) : "-"
DateOrDash(t, v) ==
  IF ~Truthy(v) THEN Text(t, Dash)
  ELSE IF ParsesAsDate(v) THEN Text(t, IsoDay(v))
  ELSE RangeError

\* if (v) doc.text(new Date(v).toISOString().slice(0, 10))
DateIfPresent(t, v) ==
  IF ~Truthy(v) THEN <<>>
  ELSE IF ParsesAsDate(v) THEN <<Text(t, IsoDay(v))>>
  ELSE <<RangeError>>

\* if (v) doc.text(v)
TextIfPresent(t, v) == IF Truthy(v) THEN <<Text(t, v)>> ELSE <<>>

\* addHeader
HeaderLines(id) ==
  << Line("band", "MIQAT TRAVELS", 0, Undefined),
     Line("band", "Booking ID", id, Undefined) >>

\* addFooter: the line it would write.  getBookingPdf defines the helper and
\* calls it nowhere, so no document holds this line.
FooterLines ==
  << Line("footer",
          "MIQAT TRAVELS | Email: info@miqattravels.com | Phone: +1-XXX-XXX-XXXX",
          0, Undefined) >>

StatusLines(b) ==
  << Text("Status", UpperWord(Or(b.status, Str("pending")))),
     Text("Approval", UpperWord(Or(b.approvalStatus, Str("pending")))) >>

\* b.agent is the populated agent: name and email are selected, phone is not.
CustomerLines(b) ==
  << Heading("CUSTOMER INFORMATION"),
     Text("Name", Or(b.customerName, Dash)),
     Text("Email", Or(b.customerEmail, Dash)),
     Text("Phone", Or(b.contactNumber, Dash)),
     Text("Agent", IF Truthy(b.agent) THEN b.agent ELSE Str("Not Assigned")) >>
  \o (IF Truthy(b.agent) THEN <<Text("Agent Email", b.agent)>> ELSE <<>>)

TravelDateLines(b) ==
  << Heading("TRAVEL DATES"),
     DateOrDash("Booking Date", b.date),
     DateOrDash("Departure", b.departureDate),
     DateOrDash("Return", b.returnDate),
     Text("Package", Or(b.package, Dash)) >>

\* booking.flights?.raw || booking.flight?.itinerary || ""
Itinerary(b) == Or(Get(b.flights, "raw"), Or(Get(b.flight, "itinerary"), Str("")))

FlightLines(b) ==
  LET depCity == Or(Get(b.flight, "departureCity"), Or(b.departureCity, Str("")))
      arrCity == Or(Get(b.flight, "arrivalCity"), Or(b.arrivalCity, Str("")))
      flightClass == Or(Get(b.flight, "flightClass"), Or(b.flightClass, Str("economy")))
      lines == ItineraryLines(Itinerary(b))
  IN  << Heading("FLIGHT DETAILS") >>
      \o (IF Truthy(depCity) /\ Truthy(arrCity)
          THEN <<Text("Route.From", depCity), Text("Route.To", arrCity)>> ELSE <<>>)
      \o << Text("Class", flightClass) >>
      \o (IF b.pnr # NoPnr THEN <<Text("PNR", Chars(b.pnr))>> ELSE <<>>)
      \o (IF Truthy(Itinerary(b))
          THEN << Line("subheading", "Flight Itinerary:", 0, Undefined) >>
               \o [i \in 1..Len(lines) |-> Item("Itinerary", i, Str(lines[i]))]
          ELSE <<>>)

\* Variant: any hotels list, even an empty one, hides the legacy hotel.
HotelsToShowAnyList(b) ==
  IF Truthy(b.hotels) THEN b.hotels
  ELSE IF Truthy(b.hotel) THEN Arr(<<b.hotel>>) ELSE Arr(<<>>)

\* (booking.hotels && booking.hotels.length > 0) ? booking.hotels
\*   : (booking.hotel ? [booking.hotel] : [])
HotelsToShow(b) ==
  IF Truthy(b.hotels) /\ Length(b.hotels) > 0 THEN b.hotels
  ELSE IF Truthy(b.hotel) THEN Arr(<<b.hotel>>) ELSE Arr(<<>>)

HotelBlock(hotel, i) ==
  << Item("Hotel", i, Undefined),
     Item("Hotel.Name", i, Or(Get(hotel, "name"), Or(Get(hotel, "hotelName"), Dash))),
     Item("Hotel.RoomType", i, Or(Get(hotel, "roomType"), Dash)),
     Item("Hotel.CheckIn", i, Or(Get(hotel, "checkIn"), Dash)),
     Item("Hotel.CheckOut", i, Or(Get(hotel, "checkOut"), Dash)) >>

HotelLines(b) ==
  LET list == HotelsToShow(b).items
  IN  IF Len(list) > 0
      THEN <<Heading("Hotel Details")>>
           \o Concat([i \in 1..Len(list) |-> HotelBlock(list[i], i)])
      ELSE <<>>

\* booking.visas?.passengers || (Array.isArray(booking.visas) ? booking.visas : [])
\*   || (booking.visa ? [booking.visa] : [])
VisaPassengers(b) ==
  Or(Get(b.visas, "passengers"),
     Or(IF IsArray(b.visas) THEN b.visas ELSE Arr(<<>>),
        IF Truthy(b.visa) THEN Arr(<<b.visa>>) ELSE Arr(<<>>)))

VisaBlock(passenger, i) ==
  << Item("Passenger", i, Undefined),
     Item("Passenger.Name", i,
          Or(Get(passenger, "name"), Or(Get(passenger, "fullName"), Dash))),
     Item("Passenger.Nationality", i, Or(Get(passenger, "nationality"), Dash)),
     Item("Passenger.VisaType", i, Or(Get(passenger, "visaType"), Dash)) >>

VisaLines(b) ==
  LET list == VisaPassengers(b)
  IN  IF Truthy(list) /\ Length(list) > 0
      THEN << Heading("Visa Details"), Text("Total Visas", Num(Length(list))) >>
           \o Concat([i \in 1..Length(list) |-> VisaBlock(list.items[i], i)])
      ELSE <<>>

\* booking.transportation?.legs || booking.transport?.legs || []
TransportLegs(b) ==
  Or(Get(b.transportation, "legs"), Or(Get(b.transport, "legs"), Arr(<<>>)))

LegBlock(leg, i) ==
  << Item("Leg", i, Undefined),
     Item("Leg.From", i, Or(Get(leg, "from"), Dash)),
     Item("Leg.To", i, Or(Get(leg, "to"), Dash)),
     Item("Leg.Vehicle", i, Or(Get(leg, "vehicleType"), Dash)),
     Item("Leg.Date", i, Or(Get(leg, "date"), Dash)),
     Item("Leg.Time", i, Or(Get(leg, "time"), Dash)) >>

\* Variant: the summary is written by an if of its own, after the leg table.
TransportLinesSeparateIf(b) ==
  LET legs == TransportLegs(b)
  IN  (IF Truthy(legs) /\ Length(legs) > 0
       THEN << Heading("Transportation Details"),
               Text("Total Legs",
                    Or(Get(b.transportation, "count"),
                       Or(Get(b.transport, "count"), Num(Length(legs))))) >>
            \o Concat([i \in 1..Length(legs) |-> LegBlock(legs.items[i], i)])
       ELSE <<>>)
      \o (IF \/ Truthy(Get(b.transport, "transportType"))
             \/ Truthy(Get(b.transport, "pickupLocation"))
          THEN << Heading("Transportation Details"),
                  Text("Type", Or(Get(b.transport, "transportType"), Dash)),
                  Text("Pickup", Or(Get(b.transport, "pickupLocation"), Dash)) >>
          ELSE <<>>)

TransportLines(b) ==
  LET legs == TransportLegs(b)
  IN  IF Truthy(legs) /\ Length(legs) > 0
      THEN << Heading("Transportation Details"),
              Text("Total Legs",
                   Or(Get(b.transportation, "count"),
                      Or(Get(b.transport, "count"), Num(Length(legs))))) >>
           \o Concat([i \in 1..Length(legs) |-> LegBlock(legs.items[i], i)])
      ELSE IF \/ Truthy(Get(b.transport, "transportType"))
              \/ Truthy(Get(b.transport, "pickupLocation"))
      THEN << Heading("Transportation Details"),
              Text("Type", Or(Get(b.transport, "transportType"), Dash)),
              Text("Pickup", Or(Get(b.transport, "pickupLocation"), Dash)) >>
      ELSE <<>>

\* booking.costing?.rows || booking.pricing?.table || []
CostingRows(b) ==
  Or(Get(b.costing, "rows"), Or(Get(b.pricing, "table"), Arr(<<>>)))

\* booking.pricing?.totals || booking.costing?.totals || {}
CostingTotals(b) ==
  Or(Get(b.pricing, "totals"), Or(Get(b.costing, "totals"), EmptyObject))

\* "Item " + (index + 1)
ItemLabel(i) == Str(<<"Item 1", "Item 2", "Item 3", "Item 4">>[i])

CostRowBlock(row, i) ==
  << Item("Row", i, Or(Get(row, "label"), Or(Get(row, "item"), ItemLabel(i)))),
     Item("Row.Quantity", i, Or(Get(row, "quantity"), Num(0))),
     Item("Row.CostPerQty", i, Or(Get(row, "costPerQty"), Num(0))),
     Item("Row.SalePerQty", i, Or(Get(row, "salePerQty"), Num(0))) >>

TotalsLines(totals) ==
  IF \/ Truthy(Get(totals, "totalCostPrice")) \/ Truthy(Get(totals, "totalSalePrice"))
     \/ Truthy(Get(totals, "totalCost")) \/ Truthy(Get(totals, "totalSale"))
  THEN << Line("subheading", "Totals:", 0, Undefined),
          Text("Total Cost",
               Or(Get(totals, "totalCostPrice"), Or(Get(totals, "totalCost"), Num(0)))),
          Text("Total Sale",
               Or(Get(totals, "totalSalePrice"), Or(Get(totals, "totalSale"), Num(0)))),
          Text("Profit", Or(Get(totals, "profit"), Num(0))) >>
  ELSE <<>>

CostingLines(b) ==
  LET rows == CostingRows(b)
  IN  IF Truthy(rows) /\ Length(rows) > 0
      THEN << Heading("Costing Details") >>
           \o Concat([i \in 1..Length(rows) |-> CostRowBlock(rows.items[i], i)])
           \o TotalsLines(CostingTotals(b))
      ELSE <<>>

AdditionalServicesLines(b) ==
  IF Truthy(b.additionalServices)
  THEN << Heading("Additional Services"), Text("Services", b.additionalServices) >>
  ELSE <<>>

PaymentReceivedLines(b) ==
  IF Truthy(b.paymentReceived)
  THEN << Line("subheading", "Payment Received:", 0, Undefined),
          Text("Received.Amount", Or(Get(b.paymentReceived, "amount"), Num(0))),
          Text("Received.Method", Or(Get(b.paymentReceived, "method"), Dash)) >>
       \o DateIfPresent("Received.Date", Get(b.paymentReceived, "date"))
       \o TextIfPresent("Received.Reference", Get(b.paymentReceived, "reference"))
  ELSE <<>>

PaymentDueLines(b) ==
  IF Truthy(b.paymentDue)
  THEN << Line("subheading", "Payment Due:", 0, Undefined),
          Text("Due.Amount", Or(Get(b.paymentDue, "amount"), Num(0))),
          Text("Due.Method", Or(Get(b.paymentDue, "method"), Dash)) >>
       \o DateIfPresent("Due.Date", Get(b.paymentDue, "dueDate"))
       \o TextIfPresent("Due.Notes", Get(b.paymentDue, "notes"))
  ELSE <<>>

PaymentMethodLines(b) ==
  IF Truthy(b.payment)
  THEN << Line("subheading", "Payment Method:", 0, Undefined),
          Text("Payment.Method",
               Or(Get(b.payment, "method"), Or(b.paymentMethod, Dash))) >>
       \o (IF Truthy(Get(b.payment, "cardLast4"))
           THEN <<Text("Payment.Card", Get(b.payment, "cardLast4"))>> ELSE <<>>)
       \o TextIfPresent("Payment.Cardholder", Get(b.payment, "cardholderName"))
  ELSE <<>>

ScheduleLines(inst) ==
  LET schedule == Get(inst, "schedule")
  IN  IF Truthy(schedule) /\ Length(schedule) > 0
      THEN << Text("Schedule", Undefined) >>
           \o Concat([i \in 1..Length(schedule) |->
                 << Item("Schedule.Date", i, Or(Get(schedule.items[i], "date"), Dash)),
                    Item("Schedule.Amount", i,
                         Or(Get(schedule.items[i], "amount"), Num(0))) >>])
      ELSE <<>>

FlightPaymentLines(b) ==
  LET fp == b.flightPayments
      cc == Get(fp, "creditCard")
      inst == Get(fp, "installment")
  IN  IF Truthy(fp)
      THEN << Line("subheading", "Flight Payment Plan:", 0, Undefined),
              Text("Payment Mode", Or(Get(fp, "mode"), Dash)) >>
           \o (IF Truthy(cc)
               THEN << Text("Card.Amount", Or(Get(cc, "amount"), Num(0))),
                       Text("Card.PaidOn", Or(Get(cc, "paidOn"), Dash)) >>
               ELSE <<>>)
           \o (IF Truthy(inst)
               THEN << Text("Ticket Total", Or(Get(inst, "ticketTotal"), Num(0))),
                       Text("Advance Paid", Or(Get(inst, "advancePaid"), Num(0))),
                       Text("Installments", Or(Get(inst, "numberOfInstallments"), Num(0))),
                       Text("Start Date", Or(Get(inst, "startDate"), Dash)),
                       Text("Remaining", Or(Get(inst, "remaining"), Num(0))),
                       Text("Per Installment", Or(Get(inst, "perInstallment"), Num(0))) >>
                    \o ScheduleLines(inst)
               ELSE <<>>)
      ELSE <<>>

PaymentLines(b) ==
  << Heading("Payment Details") >>
  \o PaymentReceivedLines(b) \o PaymentDueLines(b)
  \o PaymentMethodLines(b) \o FlightPaymentLines(b)

\* Every doc.text call of getBookingPdf, in order, for the populated booking b.
RenderBooking(b, id) ==
  HeaderLines(id) \o StatusLines(b) \o CustomerLines(b) \o TravelDateLines(b)
  \o FlightLines(b) \o HotelLines(b) \o VisaLines(b) \o TransportLines(b)
  \o CostingLines(b) \o AdditionalServicesLines(b) \o PaymentLines(b)

\* The index of the first line that throws, 0 when none does.
FirstThrow(lines) ==
  IF \E i \in 1..Len(lines) : lines[i].kind = "throw"
  THEN CHOOSE i \in 1..Len(lines) :
         /\ lines[i].kind = "throw"
         /\ \A j \in 1..(i - 1) : lines[j].kind # "throw"
  ELSE 0

\* The headers are set and the document is piped before the first line; the
\* response completes at doc.end() unless a line throws on the way.
PdfResponse(lines) ==
  IF FirstThrow(lines) = 0
  THEN [Response(200, "", Undefined) EXCEPT !.headers = TRUE, !.doc = lines]
  ELSE [Threw EXCEPT !.headers = TRUE,
                     !.doc = SubSeq(lines, 1, FirstThrow(lines) - 1)]

\* req.user.role !== "admin" && booking.agent && booking.agent._id &&
\*   booking.agent._id.toString() !== req.user._id.toString()
PdfForbidden(agent, caller) ==
  caller.role # "admin" /\ Truthy(agent) /\ StringOf(agent) # caller.id

\* Variant: the PDF headers are set on entry, before the booking is looked up.
GetBookingPdfHeadersFirst(caller, id) ==
  /\ req' = Request("getBookingPdf", caller, id, EmptyBody)
  /\ UNCHANGED inquiryVars
  /\ UNCHANGED <<bookings, nextId>>
  /\ IF ~Exists(id)
     THEN res' = [Message(404, "Booking not found") EXCEPT !.headers = TRUE]
     ELSE IF PdfForbidden(Populate(bookings[id].agent), caller)
     THEN res' = [Message(403, "Not authorized") EXCEPT !.headers = TRUE]
     ELSE res' = PdfResponse(
                   RenderBooking([bookings[id] EXCEPT !.agent = Populate(@)], id))

GetBookingPdf(caller, id) ==
  /\ req' = Request("getBookingPdf", caller, id, EmptyBody)
  /\ UNCHANGED inquiryVars
  /\ UNCHANGED <<bookings, nextId>>
  /\ IF ~Exists(id)
     THEN res' = Message(404, "Booking not found")
     ELSE IF PdfForbidden(Populate(bookings[id].agent), caller)
     THEN res' = Message(403, "Not authorized")
     ELSE res' = PdfResponse(
                   RenderBooking([bookings[id] EXCEPT !.agent = Populate(@)], id))

(***************************************************************************)
(* Inquiries (controllers/inquiryController.js, models/Inquiry.js).        *)
(* inquiries is the collection, in order of creation: the id of an inquiry *)
(* is its place.  webhookEnv says whether INQUIRY_WEBHOOK_URL and          *)
(* INQUIRY_WEBHOOK_SECRET are both set.  webhookTasks holds one record per *)
(* call of forwardInquiryWebhook: the inquiry it forwards, the handler     *)
(* that called it and how far the call got.                                *)
(***************************************************************************)
EmptyInquiryBody ==
  [ name |-> Undefined, email |-> Undefined, phone |-> Undefined,
    message |-> Undefined, customerName |-> Undefined,
    customerEmail |-> Undefined, customerPhone |-> Undefined,
    externalId |-> Undefined, id |-> Undefined, packageName |-> Undefined ]

\* No request yet, in a process that serves the inquiry routes: the id of a
\* request there is a string of the path, or undefined.
NoInquiryRequest == Request("none", NoCaller, Undefined, EmptyInquiryBody)

\* packageDetails: null unless the body names a package.  Of the package
\* fields only the name is carried; the others are copied the same way.
PackageDetails(body) ==
  IF Truthy(body.packageName)
  THEN Obj([packageName |-> body.packageName])
  ELSE Null

\* new Inquiry({...}); status takes the default of the schema and responses,
\* an array path, starts as the empty array.
NewInquiry(body) ==
  [ externalId |-> Or(body.externalId, Or(body.id, Undefined)),
    customerName |-> Or(body.customerName, body.name),
    customerEmail |-> Or(body.customerEmail, body.email),
    customerPhone |-> Or(body.customerPhone, body.phone),
    message |-> body.message,
    packageDetails |-> PackageDetails(body),
    status |-> Str("pending"),
    assignedAgent |-> Undefined,
    responses |-> Arr(<<>>) ]

\* The required paths of inquirySchema.
InquirySchemaValid(q) ==
  /\ Truthy(q.customerName)
  /\ Truthy(q.customerEmail)
  /\ Truthy(q.message)

\* One call of forwardInquiryWebhook.  state: "skipped" (the environment is
\* not configured: the call returns at once), "started" (the POST is in
\* flight), "success" or "failed" (the POST was answered or threw).
WebhookTask(inquiry, by, state) == [inquiry |-> inquiry, by |-> by, state |-> state]

\* forwardInquiryWebhook up to its first await.
ForwardStarted(inquiry, by) ==
  WebhookTask(inquiry, by, IF webhookEnv THEN "started" ELSE "skipped")

\* createInquiry: POST /api/inquiries (protect) and POST /api/inquiries/create.
\* dbUp: whether the database accepts the write.
CreateInquiry(body, dbUp) ==
  /\ Len(inquiries) < MaxInquiries
  /\ req' = Request("createInquiry", NoCaller, Undefined, body)
  /\ UNCHANGED <<bookings, nextId, webhookEnv, adminApiKey, agentVars>>
  /\ IF InquirySchemaValid(NewInquiry(body)) /\ dbUp
     THEN /\ inquiries' = Append(inquiries, NewInquiry(body))
          /\ webhookTasks' =
               Append(webhookTasks,
                      ForwardStarted(Len(inquiries) + 1, "createInquiry"))
          /\ res' = Json(201, NewInquiry(body))
     ELSE \* save() rejects: the catch answers 500 with error.message
          /\ res' = Message(500, "Inquiry save failed")
          /\ UNCHANGED <<inquiries, webhookTasks>>

\* Variant: a forward that failed is started again.
WebhookResolvesRetry(i, outcome) ==
  /\ i \in DOMAIN webhookTasks
  /\ webhookTasks[i].state = "started"
  /\ webhookTasks' =
       IF outcome = "failed"
       THEN Append([webhookTasks EXCEPT ![i].state = outcome],
                   WebhookTask(webhookTasks[i].inquiry, webhookTasks[i].by, "started"))
       ELSE [webhookTasks EXCEPT ![i].state = outcome]
  /\ UNCHANGED <<bookings, nextId, req, res, inquiries, webhookEnv, adminApiKey,
               agentVars>>

\* The POST of a forward started by createInquiry is answered (success) or
\* throws (failed); the then-callback only writes a warning to the console.
WebhookResolves(i, outcome) ==
  /\ i \in DOMAIN webhookTasks
  /\ webhookTasks[i].state = "started"
  /\ webhookTasks' = [webhookTasks EXCEPT ![i].state = outcome]
  /\ UNCHANGED <<bookings, nextId, req, res, inquiries, webhookEnv, adminApiKey,
               agentVars>>

(***************************************************************************)
(* Looking an inquiry up.  A request names an inquiry by the ObjectId of   *)
(* its document or by its externalId.  A document that was deleted leaves  *)
(* its place in inquiries to Deleted: an ObjectId is never given twice.    *)
(***************************************************************************)
ObjectId(n) == [k |-> "objectid", n |-> n]

Deleted == [k |-> "deleted"]

\* Inquiry.findById(req.params.id), tried when the id has the form of an
\* ObjectId: the place of the document, 0 for none.
ByObjectId(id) ==
  IF id.k = "objectid" /\ id.n \in DOMAIN inquiries /\ inquiries[id.n] # Deleted
  THEN id.n
  ELSE 0

WithExternalId(id) ==
  {i \in DOMAIN inquiries : inquiries[i] # Deleted /\ inquiries[i].externalId = id}

\* Inquiry.findOne({ externalId: req.params.id }): the first such document.
ByExternalId(id) ==
  IF WithExternalId(id) = {} THEN 0
  ELSE CHOOSE i \in WithExternalId(id) : \A j \in WithExternalId(id) : i <= j

FindInquiry(id) == IF ByObjectId(id) # 0 THEN ByObjectId(id) ELSE ByExternalId(id)

\* The value of the enum path status is one the schema lists.
InquiryStatusEnum == {"pending", "in-progress", "resolved", "closed", "responded"}

InquiryStatusValid(q) == q.status.k = "string" /\ q.status.s \in InquiryStatusEnum

\* User.findById(id) or Agent.findById(id) finds a document.
AgentExists(id) ==
  /\ id.k = "string"
  /\ \/ id.s \in UserCollection
     \/ \E i \in DOMAIN agents : agents[i].id = id.s

\* A document as a response carries it: with its _id, and with assignedAgent
\* populated where the handler populates it.
InquiryDocument(i, q) == [_id |-> ObjectId(i), inquiry |-> q]

WithAgentPopulated(q) == [q EXCEPT !.assignedAgent = Populate(q.assignedAgent)]

(***************************************************************************)
(* getInquiries: GET /api/inquiries (protect).                             *)
(***************************************************************************)
\* Inquiry.find(filter): the filter is empty unless the caller is an agent.
Matching(caller) ==
  {i \in DOMAIN inquiries :
     /\ inquiries[i] # Deleted
     /\ caller.role = "agent" => inquiries[i].assignedAgent = Str(caller.id)}

\* .populate("assignedAgent").sort({ createdAt: -1 })
RECURSIVE LatestFirst(_)
LatestFirst(S) ==
  IF S = {} THEN <<>>
  ELSE LET last == CHOOSE i \in S : \A j \in S : j <= i
       IN <<InquiryDocument(last, WithAgentPopulated(inquiries[last]))>>
            \o LatestFirst(S \ {last})

GetInquiries(caller) ==
  /\ req' = Request("getInquiries", caller, Undefined, EmptyInquiryBody)
  /\ res' = Json(200, Arr(LatestFirst(Matching(caller))))
  /\ UNCHANGED <<bookings, nextId, inquiryVars>>

(***************************************************************************)
(* getInquiryById: GET /api/inquiries/:id (protect).                       *)
(***************************************************************************)
\* inquiry.assignedAgent?._id.toString() !== req.user._id.toString(), on the
\* populated document: a reference that populate left null compares as
\* undefined.
NotAssignedTo(populated, caller) == populated.assignedAgent # Str(caller.id)

GetInquiryById(caller, id) ==
  /\ req' = Request("getInquiryById", caller, id, EmptyInquiryBody)
  /\ UNCHANGED <<bookings, nextId, inquiryVars>>
  /\ IF FindInquiry(id) = 0
     THEN res' = Message(404, "Inquiry not found")
     ELSE LET populated == WithAgentPopulated(inquiries[FindInquiry(id)])
          IN IF caller.role = "agent" /\ NotAssignedTo(populated, caller)
             THEN res' = Message(403, "Forbidden")
             ELSE res' = Json(200, InquiryDocument(FindInquiry(id), populated))

(***************************************************************************)
(* updateInquiry: PUT /api/inquiries/:id (protect).                         *)
(***************************************************************************)
UpdateInquiryBody(status, assignedAgent) ==
  [status |-> status, assignedAgent |-> assignedAgent]

\* if (status) inquiry.status = status
WithStatus(q, body) ==
  IF Truthy(body.status) THEN [q EXCEPT !.status = body.status] ELSE q

\* The admin branch: status, then assignedAgent when the body has one.
AdminUpdated(q, body) ==
  IF body.assignedAgent # Undefined
  THEN [WithStatus(q, body) EXCEPT !.assignedAgent = Or(body.assignedAgent, Null)]
  ELSE WithStatus(q, body)

UpdateInquiry(caller, id, body) ==
  /\ req' = Request("updateInquiry", caller, id, body)
  /\ UNCHANGED <<bookings, nextId, webhookEnv, webhookTasks, adminApiKey, agentVars>>
  /\ IF FindInquiry(id) = 0
     THEN res' = Message(404, "Inquiry not found") /\ UNCHANGED inquiries
     ELSE LET at == FindInquiry(id)
              updated == IF caller.role = "agent"
                         THEN WithStatus(inquiries[at], body)
                         ELSE AdminUpdated(inquiries[at], body)
          IN IF caller.role = "agent" /\ inquiries[at].assignedAgent # Str(caller.id)
             THEN res' = Message(403, "Forbidden") /\ UNCHANGED inquiries
             ELSE IF /\ caller.role = "admin"
                     /\ body.assignedAgent # Undefined
                     /\ Truthy(body.assignedAgent)
                     /\ ~AgentExists(body.assignedAgent)
             THEN res' = Message(400, "Agent not found") /\ UNCHANGED inquiries
             ELSE IF InquiryStatusValid(updated)
             THEN /\ inquiries' = [inquiries EXCEPT ![at] = updated]
                  /\ res' = Json(200, InquiryDocument(at, updated))
             ELSE \* save() rejects: the catch answers 500 with error.message
                  /\ res' = Message(500, "Inquiry validation failed")
                  /\ UNCHANGED inquiries

(***************************************************************************)
(* addResponse: POST /api/inquiries/:id/respond (protect).                 *)
(***************************************************************************)
\* inquiry.responses.push({ message, responder: req.user._id })
WithResponse(q, caller, body) ==
  [q EXCEPT !.responses =
     Arr(Append(q.responses.items,
                [message |-> body.message, responder |-> Str(caller.id)]))]

AddResponse(caller, id, body) ==
  /\ req' = Request("addResponse", caller, id, body)
  /\ UNCHANGED <<bookings, nextId, webhookEnv, webhookTasks, adminApiKey, agentVars>>
  /\ IF FindInquiry(id) = 0
     THEN res' = Message(404, "Inquiry not found") /\ UNCHANGED inquiries
     ELSE LET at == FindInquiry(id)
          IN /\ Length(inquiries[at].responses) < MaxResponses
             /\ IF Truthy(body.message)
                THEN /\ inquiries' =
                          [inquiries EXCEPT
                             ![at] = WithResponse(inquiries[at], caller, body)]
                     /\ res' = Json(200, InquiryDocument(at,
                                 WithResponse(inquiries[at], caller, body)))
                ELSE \* message is required: save() rejects, the catch answers 500
                     /\ res' = Message(500, "Inquiry validation failed")
                     /\ UNCHANGED inquiries

(***************************************************************************)
(* deleteInquiry: DELETE /api/inquiries/:id (protect, admin only).         *)
(***************************************************************************)
DeleteInquiry(caller, id) ==
  /\ req' = Request("deleteInquiry", caller, id, EmptyInquiryBody)
  /\ UNCHANGED <<bookings, nextId, webhookEnv, webhookTasks, adminApiKey, agentVars>>
  /\ IF caller.role # "admin"
     THEN res' = Message(403, "Forbidden") /\ UNCHANGED inquiries
     ELSE IF FindInquiry(id) = 0
     THEN res' = Message(404, "Inquiry not found") /\ UNCHANGED inquiries
     ELSE /\ inquiries' = [inquiries EXCEPT ![FindInquiry(id)] = Deleted]
          /\ res' = Message(200, "Inquiry deleted successfully")

(***************************************************************************)
(* assignInquiryToAgent: POST /api/inquiries/:id/assign (protect, admin    *)
(* only).                                                                  *)
(***************************************************************************)
Bool(b) == [k |-> "boolean", b |-> b]

AssignBody(assignedAgent, createBooking, inquiryData) ==
  [ assignedAgent |-> assignedAgent, createBooking |-> createBooking,
    inquiryData |-> inquiryData ]

\* new Inquiry({...}) from the inquiryData of the request.
InquiryFromData(id, data) ==
  [ externalId |-> Or(Get(data, "externalId"), id),
    customerName |-> Get(data, "customerName"),
    customerEmail |-> Get(data, "customerEmail"),
    customerPhone |-> Or(Get(data, "customerPhone"), Str("")),
    message |-> Or(Get(data, "message"), Str("")),
    packageDetails |-> Or(Get(data, "packageDetails"), Null),
    status |-> Str("pending"),
    assignedAgent |-> Undefined,
    responses |-> Arr(<<>>) ]

\* new Date(), as the string the stored bookings carry for a date.
Today == Str("2024-05-01")

\* bookingData.  packagePrice is read by no handler and is left out.
BookingFromInquiry(inquiry, assignedAgent) ==
  [NewBooking(NoCaller, EmptyBody) EXCEPT
     !.customerName = inquiry.customerName,
     !.customerEmail = inquiry.customerEmail,
     !.contactNumber = Or(inquiry.customerPhone, Str("")),
     !.package = Or(Get(inquiry.packageDetails, "packageName"), Str("Inquiry Package")),
     !.date = Today,
     !.status = Str("pending"),
     !.approvalStatus = Str("pending"),
     !.agent = assignedAgent]

\* Variant: the inquiry is assigned only when the booking was created.
AssignedWhenBooked(inquiry, assignedAgent, created) ==
  IF created
  THEN [inquiry EXCEPT !.assignedAgent = assignedAgent,
                       !.status = Str("in-progress")]
  ELSE inquiry

\* The inquiry as assignInquiryToAgent saves it.  created: Booking.create
\* answered, and the line after it has set the status.
Assigned(inquiry, assignedAgent, created) ==
  LET afterBooking == IF created THEN [inquiry EXCEPT !.status = Str("in-progress")]
                      ELSE inquiry
  IN [afterBooking EXCEPT
        !.assignedAgent = assignedAgent,
        !.status = IF afterBooking.status = Str("pending") THEN Str("in-progress")
                   ELSE afterBooking.status]

\* bookingUp: whether the database accepts the booking.
AssignInquiryToAgent(caller, id, body, bookingUp) ==
  LET found == FindInquiry(id)
      creates == found = 0 /\ Truthy(body.inquiryData)
      at == IF found # 0 THEN found ELSE Len(inquiries) + 1
      loaded == IF found # 0 THEN inquiries[found]
                ELSE InquiryFromData(id, body.inquiryData)
      stored == IF found # 0 THEN inquiries ELSE Append(inquiries, loaded)
      booking == BookingFromInquiry(loaded, body.assignedAgent)
      created == /\ body.createBooking # Bool(FALSE)
                 /\ bookingUp /\ SchemaValid(booking)
  IN /\ req' = Request("assignInquiryToAgent", caller, id, body)
     /\ UNCHANGED <<webhookEnv, webhookTasks, adminApiKey, agentVars>>
     /\ IF caller.role # "admin"
        THEN /\ res' = Message(403, "Forbidden")
             /\ UNCHANGED <<bookings, nextId, inquiries>>
        ELSE IF ~Truthy(body.assignedAgent)
        THEN /\ res' = Message(400, "Agent ID is required")
             /\ UNCHANGED <<bookings, nextId, inquiries>>
        ELSE IF found = 0 /\ ~Truthy(body.inquiryData)
        THEN /\ res' = Message(404, "Inquiry not found in MongoDB.")
             /\ UNCHANGED <<bookings, nextId, inquiries>>
        ELSE IF creates /\ ~InquirySchemaValid(loaded)
        THEN /\ res' = Message(500, "Failed to create inquiry in MongoDB.")
             /\ UNCHANGED <<bookings, nextId, inquiries>>
        ELSE /\ creates => Len(inquiries) < MaxInquiries
             /\ IF ~AgentExists(body.assignedAgent)
                THEN /\ res' = Message(400, "Agent not found")
                     /\ inquiries' = stored
                     /\ UNCHANGED <<bookings, nextId>>
                ELSE /\ created => nextId <= MaxBookings
                     /\ inquiries' =
                          [stored EXCEPT
                             ![at] = Assigned(loaded, body.assignedAgent, created)]
                     /\ IF created
                        THEN /\ bookings' = Saved(nextId, booking)
                             /\ nextId' = nextId + 1
                        ELSE UNCHANGED <<bookings, nextId>>
                     /\ res' = Response(200, "Inquiry assigned to agent successfully",
                                 InquiryDocument(at,
                                   WithAgentPopulated(
                                     Assigned(loaded, body.assignedAgent, created))))

(***************************************************************************)
(* manualForwardInquiryWebhook: POST /api/inquiries/:id/forward-webhook    *)
(* (no middleware).  adminApiKey is process.env.ADMIN_API_KEY.             *)
(***************************************************************************)
\* Variant: the key is compared only when one is configured.
KeyRefusedWhenConfigured(apiKey) == Truthy(adminApiKey) /\ apiKey # adminApiKey

\* !process.env.ADMIN_API_KEY || apiKey !== process.env.ADMIN_API_KEY
KeyRefused(apiKey) == ~Truthy(adminApiKey) \/ apiKey # adminApiKey

\* forwardInquiryWebhook awaited to its result: skipped without calling out
\* when the webhook is not configured, else as the POST ended.
ForwardResult(inquiry, outcome) ==
  [ForwardStarted(inquiry, "manualForward") EXCEPT
     !.state = IF @ = "started" THEN outcome ELSE @]

\* apiKey: the X-Api-Key header, undefined when the request has none.
\* outcome: whether the POST was answered (success) or threw (failed).
ManualForwardInquiryWebhook(apiKey, id, outcome) ==
  /\ req' = Request("manualForwardInquiryWebhook", NoCaller, id, [apiKey |-> apiKey])
  /\ UNCHANGED <<bookings, nextId, inquiries, webhookEnv, adminApiKey, agentVars>>
  /\ IF KeyRefused(apiKey)
     THEN res' = Message(401, "Unauthorized") /\ UNCHANGED webhookTasks
     ELSE IF FindInquiry(id) = 0
     THEN res' = Message(404, "Inquiry not found") /\ UNCHANGED webhookTasks
     ELSE /\ Len(webhookTasks) < MaxForwards
          /\ webhookTasks' = Append(webhookTasks, ForwardResult(FindInquiry(id), outcome))
          /\ res' = IF ForwardResult(FindInquiry(id), outcome).state = "success"
                    THEN Response(200, "", Str("forwarded"))
                    ELSE Message(502, "failed")

(***************************************************************************)
(* registerAgent: POST /api/agent/register (protect, admin).  The handler  *)
(* awaits the database twice, so calls interleave: registrations holds,    *)
(* for each call in flight or ended, the validated body, whether findOne   *)
(* found the email free, and the status code once the call has answered.   *)
(***************************************************************************)
Processes == {1, 2}

\* The _id a new Agent document gets.
AgentIds == <<"g1", "g2", "g3", "g4", "g5">>

\* bcrypt.hash(password, 12)
Hash(password) == [k |-> "hash", of |-> password]

StoredAgents ==
  << [ id |-> "g1", name |-> Chars(<<"G", "u", "l">>), email |-> Str("g1@x.com"),
       phone |-> Undefined, role |-> Str("agent"),
       passwordHash |-> Hash(Chars(<<"g", "1", "p", "a", "s", "s">>)) ] >>

Registration(pc, body, free, code) ==
  [pc |-> pc, body |-> body, free |-> free, code |-> code]

RegisterBody(name, email, password, upsert) ==
  [name |-> name, email |-> email, password |-> password, upsert |-> upsert]

NoRegistrations ==
  [p \in Processes |->
     Registration("idle", RegisterBody(Undefined, Undefined, Undefined, FALSE), FALSE, 0)]

\* The strings Joi's email() accepts, among those the requests carry.
WellFormedEmails == {"g1@x.com", "new@x.com"}

\* registerSchema.validate
JoiValid(body) ==
  /\ body.name.k = "chars" /\ Len(body.name.cs) >= 2
  /\ body.email.k = "string" /\ body.email.s \in WellFormedEmails
  /\ body.password.k = "chars" /\ Len(body.password.cs) >= 6

WithEmail(email) == {i \in DOMAIN agents : agents[i].email = email}

\* Agent.findOne(query): the place of the document, 0 for none.  company:
\* the query also asks for a company; agentSchema has no such path, so no
\* stored agent carries one.
FindAgent(email, company) ==
  IF company \/ WithEmail(email) = {} THEN 0
  ELSE CHOOSE i \in WithEmail(email) : \A j \in WithEmail(email) : i <= j

\* The upsert branch: name, phone (absent from the bodies here), passwordHash.
Upserted(agent, body) ==
  [agent EXCEPT !.name = Coalesce(body.name, agent.name),
                !.passwordHash = Hash(body.password)]

\* Variant: the collection has no unique index on email.
DuplicateKeyNoIndex(email) == FALSE

\* The unique index on email rejects the insert (E11000).
DuplicateKey(email) == WithEmail(email) # {}

\* registerAgent up to its await of bcrypt.hash before Agent.create, or to
\* its answer when it gives one before.
RegisterAgentFind(p, body, company) ==
  /\ registrations[p].pc # "creating"
  /\ UNCHANGED <<bookings, nextId, req, res, inquiries, webhookEnv, webhookTasks,
                 adminApiKey>>
  /\ LET found == FindAgent(body.email, company)
         free == WithEmail(body.email) = {}
     IN IF ~JoiValid(body)
        THEN /\ registrations' =
                  [registrations EXCEPT ![p] = Registration("done", body, FALSE, 400)]
             /\ UNCHANGED agents
        ELSE IF found # 0 /\ body.upsert
        THEN /\ agents' = [agents EXCEPT ![found] = Upserted(agents[found], body)]
             /\ registrations' =
                  [registrations EXCEPT ![p] = Registration("done", body, free, 200)]
        ELSE IF found # 0
        THEN /\ registrations' =
                  [registrations EXCEPT ![p] = Registration("done", body, free, 409)]
             /\ UNCHANGED agents
        ELSE /\ registrations' =
                  [registrations EXCEPT ![p] = Registration("creating", body, free, 0)]
             /\ UNCHANGED agents

\* Agent.create and the answer: 201, or 409 from the catch on E11000.
RegisterAgentCreate(p) ==
  /\ registrations[p].pc = "creating"
  /\ UNCHANGED <<bookings, nextId, req, res, inquiries, webhookEnv, webhookTasks,
                 adminApiKey>>
  /\ LET body == registrations[p].body
     IN IF DuplicateKey(body.email)
        THEN /\ registrations' = [registrations EXCEPT ![p].pc = "done", ![p].code = 409]
             /\ UNCHANGED agents
        ELSE /\ Len(agents) < MaxAgents
             /\ agents' =
                  Append(agents,
                         [ id |-> AgentIds[Len(agents) + 1], name |-> body.name,
                           email |-> body.email, phone |-> Undefined,
                           role |-> Str("agent"),
                           passwordHash |-> Hash(body.password) ])
             /\ registrations' = [registrations EXCEPT ![p].pc = "done", ![p].code = 201]

(***************************************************************************)
(* Specification Spec: the booking handlers over an initially empty store. *)
(***************************************************************************)
ValidPnr == <<"a", "b", "c", "1", "2", "3">>
DashedPnr == <<"a", "b", "-", "1", "2", "c", "3">>
ShortPnr == <<"a", "b", "-", "1", "2">>
LongPnr == <<"a", "b", "c", "1", "2", "3", "a">>

PnrSamples == {ValidPnr, DashedPnr, ShortPnr, LongPnr}

\* Bodies that differ from base in one field.
BodiesOver(base) ==
  {base}
  \cup {[base EXCEPT !.pnr = p] : p \in {ValidPnr, ShortPnr}}
  \cup {[base EXCEPT !.agent = a] : a \in {Null, Str("u1"), Str("g1")}}
  \cup {[base EXCEPT !.status = st] :
          st \in {Str("confirmed"), Str("cancelled"), Str("archived")}}
  \cup {[base EXCEPT !.approvalStatus = ap] : ap \in {Str("approved"), Str("pending")}}

CreateBodies == BodiesOver(RequiredBody) \cup {EmptyBody}

UpdateBodies == BodiesOver(EmptyBody) \cup {[EmptyBody EXCEPT !.customerName = Str("")]}

Init ==
  /\ bookings = <<>>
  /\ nextId = 1
  /\ req = NoRequest
  /\ res = NoResponse
  /\ inquiries = <<>>
  /\ webhookEnv = FALSE
  /\ webhookTasks = <<>>
  /\ adminApiKey = Undefined
  /\ agents = StoredAgents
  /\ registrations = NoRegistrations

Next ==
  \E caller \in Callers :
    \/ \E body \in CreateBodies : CreateBooking(caller, body)
    \/ \E id \in RequestIds, body \in UpdateBodies : UpdateBooking(caller, id, body)
    \/ \E id \in RequestIds : DeleteBooking(caller, id)
    \/ \E id \in RequestIds : GetBookingById(caller, id)
    \/ \E id \in RequestIds : GetBookingPdf(caller, id)
    \/ \E id \in RequestIds : ApproveBooking(caller, id)
    \/ \E id \in RequestIds : RejectBooking(caller, id)

Spec == Init /\ [][Next]_vars

(***************************************************************************)
(* Specification SpecPnr: createBooking and updateBooking over every PNR   *)
(* input of the alphabet up to MaxPnrLen characters, and the samples.      *)
(***************************************************************************)
PnrAlphabet == {"a", "-"}

PnrInputs ==
  PnrSamples \cup UNION {[1..n -> PnrAlphabet] : n \in 0..MaxPnrLen}

Admin == [id |-> "adm", role |-> "admin"]

NextPnr ==
  \E pnr \in PnrInputs :
    \/ CreateBooking(Admin, [RequiredBody EXCEPT !.pnr = pnr])
    \/ \E id \in Ids : UpdateBooking(Admin, id, [EmptyBody EXCEPT !.pnr = pnr])

SpecPnr == Init /\ [][NextPnr]_vars

(***************************************************************************)
(* Specification SpecApproval: approveBooking and rejectBooking over       *)
(* bookings of every owner whose status and approvalStatus were moved by   *)
(* earlier updates, approvals and rejections.                              *)
(***************************************************************************)
StatusBodies ==
  { [EmptyBody EXCEPT !.status = Str("cancelled")],
    [EmptyBody EXCEPT !.approvalStatus = Str("pending")],
    [EmptyBody EXCEPT !.approvalStatus = Str("approved")] }

NextApproval ==
  \E caller \in Callers :
    \/ CreateBooking(caller, RequiredBody)
    \/ \E id \in RequestIds, body \in StatusBodies : UpdateBooking(caller, id, body)
    \/ \E id \in RequestIds : ApproveBooking(caller, id)
    \/ \E id \in RequestIds : RejectBooking(caller, id)

SpecApproval == Init /\ [][NextApproval]_vars

(***************************************************************************)
(* Specification SpecAccess: every booking handler, by every caller, over  *)
(* bookings whose owning agent is set at creation or changed (or cleared)  *)
(* by an update.                                                           *)
(***************************************************************************)
AccessCreateBodies == {RequiredBody, [RequiredBody EXCEPT !.agent = Str("u1")]}

AccessUpdateBodies ==
  { [EmptyBody EXCEPT !.agent = Null],
    [EmptyBody EXCEPT !.agent = Str("g1")],
    [EmptyBody EXCEPT !.status = Str("confirmed")] }

NextAccess ==
  \E caller \in Callers :
    \/ \E body \in AccessCreateBodies : CreateBooking(caller, body)
    \/ \E id \in RequestIds, body \in AccessUpdateBodies : UpdateBooking(caller, id, body)
    \/ \E id \in RequestIds : DeleteBooking(caller, id)
    \/ \E id \in RequestIds : GetBookingById(caller, id)
    \/ \E id \in RequestIds : GetBookingPdf(caller, id)
    \/ \E id \in RequestIds : ApproveBooking(caller, id)
    \/ \E id \in RequestIds : RejectBooking(caller, id)

SpecAccess == Init /\ [][NextAccess]_vars

(***************************************************************************)
(* Specification SpecSections: updateBooking with bodies that provide one  *)
(* section each, over bookings created with and without a flight section.  *)
(***************************************************************************)
StoredFlight == Obj([itinerary |-> Str("PK 741 ISB-JED"), flightClass |-> Str("economy")])

IncomingFlight == Obj([itinerary |-> Str("SV 700 KHI-JED"), flightClass |-> Str("business")])

SectionCreateBodies == {RequiredBody, [RequiredBody EXCEPT !.flight = StoredFlight]}

SectionUpdateBodies ==
  { [EmptyBody EXCEPT !.flight = IncomingFlight],
    [EmptyBody EXCEPT !.flight = Obj([itinerary |-> Str("SV 700 KHI-JED")])],
    [EmptyBody EXCEPT !.flights = Obj([raw |-> Str("SV 700 KHI-JED")])],
    [EmptyBody EXCEPT !.hotels = Arr(<<Obj([name |-> Str("Hilton")])>>)],
    [EmptyBody EXCEPT !.transport = Obj([transportType |-> Str("Bus")])],
    [EmptyBody EXCEPT !.paymentDue = Null] }

NextSections ==
  \/ \E body \in SectionCreateBodies : CreateBooking(Admin, body)
  \/ \E id \in Ids, body \in SectionUpdateBodies : UpdateBooking(Admin, id, body)

SpecSections == Init /\ [][NextSections]_vars

(***************************************************************************)
(* Specification SpecInquiry: createInquiry and the webhook forwards it    *)
(* starts, with and without a configured webhook.                          *)
(***************************************************************************)
InquiryBodies ==
  { [EmptyInquiryBody EXCEPT !.name = Str("A. Khan"), !.email = Str("a@x.com"),
                             !.message = Str("Umrah in May?")],
    [EmptyInquiryBody EXCEPT !.customerName = Str("B. Ali"),
                             !.customerEmail = Str("b@x.com"),
                             !.message = Str("Price for four?"),
                             !.id = Str("pg-17"),
                             !.packageName = Str("Umrah 10D")],
    [EmptyInquiryBody EXCEPT !.name = Str("C. Noor"), !.email = Str("c@x.com"),
                             !.phone = Str("+92 300 0000000"),
                             !.message = Str("Visa only"),
                             !.externalId = Str("pg-18")],
    [EmptyInquiryBody EXCEPT !.name = Str("A. Khan"), !.email = Str("a@x.com")],
    EmptyInquiryBody }

InitInquiry ==
  /\ bookings = <<>>
  /\ nextId = 1
  /\ req = NoInquiryRequest
  /\ res = NoResponse
  /\ inquiries = <<>>
  /\ webhookEnv \in BOOLEAN
  /\ webhookTasks = <<>>
  /\ adminApiKey = Undefined
  /\ agents = StoredAgents
  /\ registrations = NoRegistrations

NextInquiry ==
  \/ \E body \in InquiryBodies, dbUp \in BOOLEAN : CreateInquiry(body, dbUp)
  \/ \E i \in 1..MaxInquiries, outcome \in {"success", "failed"} :
       WebhookResolves(i, outcome)

SpecInquiry == InitInquiry /\ [][NextInquiry]_vars

(***************************************************************************)
(* Specification SpecInquiryRead: getInquiries and getInquiryById by every *)
(* caller, over inquiries the admin assigns to an agent of the User        *)
(* collection, to an agent of the Agent collection, or to nobody.          *)
(***************************************************************************)
InitInquiryStore ==
  /\ bookings = <<>>
  /\ nextId = 1
  /\ req = NoInquiryRequest
  /\ res = NoResponse
  /\ inquiries = <<>>
  /\ webhookEnv = FALSE
  /\ webhookTasks = <<>>
  /\ adminApiKey = Undefined
  /\ agents = StoredAgents
  /\ registrations = NoRegistrations

\* The ids a request may name: those of the documents the store can hold,
\* one that is never stored, and an externalId.
InquiryRequestIds == {ObjectId(n) : n \in 1..(MaxInquiries + 1)} \cup {Str("pg-18")}

ReadInquiryBodies ==
  { [EmptyInquiryBody EXCEPT !.name = Str("A. Khan"), !.email = Str("a@x.com"),
                             !.message = Str("Umrah in May?")],
    [EmptyInquiryBody EXCEPT !.name = Str("C. Noor"), !.email = Str("c@x.com"),
                             !.message = Str("Visa only"),
                             !.externalId = Str("pg-18")] }

Reassignments == {UpdateInquiryBody(Undefined, a) : a \in {Str("u1"), Str("g1"), Null}}

NextInquiryRead ==
  \/ \E body \in ReadInquiryBodies : CreateInquiry(body, TRUE)
  \/ \E id \in InquiryRequestIds, body \in Reassignments : UpdateInquiry(Admin, id, body)
  \/ \E caller \in Callers : GetInquiries(caller)
  \/ \E caller \in Callers, id \in InquiryRequestIds : GetInquiryById(caller, id)

SpecInquiryRead == InitInquiryStore /\ [][NextInquiryRead]_vars

(***************************************************************************)
(* Specification SpecInquiryWrite: updateInquiry, addResponse,             *)
(* assignInquiryToAgent and deleteInquiry by every caller, over an inquiry *)
(* that was assigned to agent u1.                                          *)
(***************************************************************************)
\* The inquiry of the external portal after its assignment to u1.
StoredInquiry ==
  Assigned(NewInquiry([EmptyInquiryBody EXCEPT !.name = Str("C. Noor"),
                                               !.email = Str("c@x.com"),
                                               !.message = Str("Visa only"),
                                               !.externalId = Str("pg-18")]),
           Str("u1"), FALSE)

InitInquiryWrite ==
  /\ bookings = <<>>
  /\ nextId = 1
  /\ req = NoInquiryRequest
  /\ res = NoResponse
  /\ inquiries = <<StoredInquiry>>
  /\ webhookEnv = FALSE
  /\ webhookTasks = <<[inquiry |-> 1, by |-> "createInquiry", state |-> "skipped"]>>
  /\ adminApiKey = Undefined
  /\ agents = StoredAgents
  /\ registrations = NoRegistrations

WriteUpdateBodies ==
  { UpdateInquiryBody(Str("resolved"), Undefined),
    UpdateInquiryBody(Str("archived"), Undefined),
    UpdateInquiryBody(Undefined, Str("g1")) }

ResponseBodies == {[message |-> Str("On it")], [message |-> Undefined]}

NextInquiryWrite ==
  \E caller \in Callers, id \in InquiryRequestIds :
    \/ \E body \in WriteUpdateBodies : UpdateInquiry(caller, id, body)
    \/ \E body \in ResponseBodies : AddResponse(caller, id, body)
    \/ AssignInquiryToAgent(caller, id, AssignBody(Str("g1"), Bool(FALSE), Undefined), TRUE)
    \/ DeleteInquiry(caller, id)

SpecInquiryWrite == InitInquiryWrite /\ [][NextInquiryWrite]_vars

(***************************************************************************)
(* Specification SpecAssign: assignInquiryToAgent by the admin and by an   *)
(* agent, with and without booking creation and inquiryData, over          *)
(* inquiries of every status the admin's updates give them.                *)
(***************************************************************************)
AssignInquiryBody ==
  [EmptyInquiryBody EXCEPT !.customerName = Str("B. Ali"),
                           !.customerEmail = Str("b@x.com"),
                           !.message = Str("Price for four?"),
                           !.packageName = Str("Umrah 10D")]

\* The first inquiry by its ObjectId, and an id of the external portal that
\* no createInquiry stored.
AssignIds == {ObjectId(1), Str("pg-99")}

InquiryData ==
  Obj([ customerName |-> Str("D. Zia"), customerEmail |-> Str("d@x.com"),
        message |-> Str("Group of six") ])

\* u1 is an agent of the User collection; "ghost" is a well-formed id that
\* names no document of either collection.
AssignBodies ==
  { AssignBody(Str("u1"), Undefined, Undefined),
    AssignBody(Str("u1"), Bool(FALSE), Undefined),
    AssignBody(Str("u1"), Undefined, InquiryData),
    AssignBody(Str("u1"), Undefined, Obj([customerName |-> Str("D. Zia")])),
    AssignBody(Str("ghost"), Undefined, InquiryData),
    AssignBody(Undefined, Undefined, InquiryData) }

StatusUpdates ==
  {UpdateInquiryBody(Str(st), Undefined) : st \in {"resolved", "closed", "responded"}}

NextAssign ==
  \/ CreateInquiry(AssignInquiryBody, TRUE)
  \/ \E id \in AssignIds, body \in StatusUpdates : UpdateInquiry(Admin, id, body)
  \/ \E caller \in {c \in Callers : c.id \in {"adm", "u1"}}, id \in AssignIds,
        body \in AssignBodies, bookingUp \in BOOLEAN :
       AssignInquiryToAgent(caller, id, body, bookingUp)

SpecAssign == InitInquiryStore /\ [][NextAssign]_vars

(***************************************************************************)
(* Specification SpecForward: manualForwardInquiryWebhook with every key, *)
(* for stored and unknown inquiries, beside createInquiry and its own      *)
(* forwards, in processes with and without ADMIN_API_KEY and with and      *)
(* without a configured webhook.                                           *)
(***************************************************************************)
\* process.env.ADMIN_API_KEY: not set, set to the empty string, set.
ConfiguredKeys == {Undefined, Str(""), Str("k1")}

\* The X-Api-Key header: absent, empty, the configured key, another key.
PresentedKeys == {Undefined, Str(""), Str("k1"), Str("k2")}

InitForward ==
  /\ bookings = <<>>
  /\ nextId = 1
  /\ req = NoInquiryRequest
  /\ res = NoResponse
  /\ inquiries = <<>>
  /\ webhookEnv \in BOOLEAN
  /\ webhookTasks = <<>>
  /\ adminApiKey \in ConfiguredKeys
  /\ agents = StoredAgents
  /\ registrations = NoRegistrations

NextForward ==
  \/ \E body \in ReadInquiryBodies : CreateInquiry(body, TRUE)
  \/ \E i \in 1..MaxInquiries, outcome \in {"success", "failed"} :
       WebhookResolves(i, outcome)
  \/ \E apiKey \in PresentedKeys, id \in InquiryRequestIds,
        outcome \in {"success", "failed"} :
       ManualForwardInquiryWebhook(apiKey, id, outcome)

SpecForward == InitForward /\ [][NextForward]_vars

(***************************************************************************)
(* Specification SpecAgents: two registerAgent calls at a time, for the    *)
(* email of the stored agent and for a new one, with and without upsert,   *)
(* with and without a company in the query.                                *)
(***************************************************************************)
AgentName == Chars(<<"A", "n", "n">>)

RegisterBodies ==
  { RegisterBody(AgentName, Str(e), Chars(<<"s", "e", "c", "r", "e", "t">>), u) :
      e \in WellFormedEmails, u \in BOOLEAN }
  \cup { RegisterBody(AgentName, Str("new@x.com"), Chars(<<"1", "2", "3">>), FALSE) }

NextAgents ==
  \E p \in Processes :
    \/ \E body \in RegisterBodies, company \in BOOLEAN :
         RegisterAgentFind(p, body, company)
    \/ RegisterAgentCreate(p)

SpecAgents == Init /\ [][NextAgents]_vars

(***************************************************************************)
(* Specification SpecPdf: getBookingPdf over stored bookings of every      *)
(* shape the handler distinguishes.  A stored shape departs from a base    *)
(* booking in one group of sections (each section of the document reads    *)
(* only the fields of its own group); lists hold up to MaxList elements.   *)
(***************************************************************************)
\* All lists of up to MaxList elements of S.
Lists(S) == UNION {[1..n -> S] : n \in 0..MaxList}

Arrays(S) == {Arr(l) : l \in Lists(S)}

Hilton == Obj([name |-> Str("Hilton"), checkIn |-> Str("2024-05-02"),
               checkOut |-> Str("2024-05-09")])

LegacyHotel == Obj([hotelName |-> Str("Anjum"), roomType |-> Str("Quad")])

Passenger == Obj([fullName |-> Str("A. Khan"), nationality |-> Str("PK"),
                  visaType |-> Str("Umrah")])

LegacyVisa == Obj([visaType |-> Str("Tourist"), passportNumber |-> Str("AB1234567"),
                   nationality |-> Str("PK")])

RevisionLeg == Obj([from |-> Str("JED"), to |-> Str("Makkah"), vehicleType |-> Str("GMC")])

LegacyLeg == Obj([from |-> Str("Makkah"), to |-> Str("Madina"), vehicleType |-> Str("BUS")])

RevisionRow == Obj([item |-> Str("Visa"), quantity |-> Num(2), costPerQty |-> Num(100),
                    salePerQty |-> Num(120)])

LegacyRow == Obj([label |-> Str("Ticket"), quantity |-> Num(1), costPerQty |-> Num(500),
                  salePerQty |-> Num(550)])

RevisionTotals == Obj([totalCost |-> Num(200), totalSale |-> Num(240), profit |-> Num(40)])

LegacyTotals == Obj([totalCostPrice |-> Num(500), totalSalePrice |-> Num(550),
                     profit |-> Num(50)])

RevisionItinerary == Multiline(<<"PK 741 ISB-JED", " ", " PK 742 JED-ISB ">>)

LegacyItinerary == Str("SV 701 KHI-JED")

\* The booking createBooking stores for agent u1 from the required fields.
MinimalBooking == NewBooking([id |-> "u1", role |-> "agent"], RequiredBody)

\* A booking with every section populated in both shapes.
FullBooking ==
  [ MinimalBooking EXCEPT
    !.approvalStatus = Str("approved"), !.status = Str("confirmed"),
    !.pnr = <<"A", "B", "1", "2", "C", "3">>,
    !.departureDate = Str("2024-05-09T18:30:00.000Z"),
    !.flights = Obj([raw |-> RevisionItinerary]),
    !.flight = Obj([itinerary |-> LegacyItinerary, departureCity |-> Str("KHI"),
                    arrivalCity |-> Str("JED"), flightClass |-> Str("business")]),
    !.hotels = Arr(<<Hilton>>), !.hotel = LegacyHotel,
    !.visas = Obj([count |-> Num(1), passengers |-> Arr(<<Passenger>>)]),
    !.visa = LegacyVisa,
    !.transportation = Obj([count |-> Num(1), legs |-> Arr(<<RevisionLeg>>)]),
    !.transport = Obj([transportType |-> Str("Bus"), pickupLocation |-> Str("Airport"),
                       legs |-> Arr(<<LegacyLeg>>)]),
    !.costing = Obj([rows |-> Arr(<<RevisionRow>>), totals |-> RevisionTotals]),
    !.pricing = Obj([table |-> Arr(<<LegacyRow>>), totals |-> LegacyTotals]),
    !.additionalServices = Str("Ziyarat"),
    !.paymentReceived = Obj([amount |-> Num(100), method |-> Str("cash"),
                             date |-> Str("2024-05-01")]),
    !.paymentDue = Obj([amount |-> Num(140), dueDate |-> Str("2024-05-01")]),
    !.payment = Obj([method |-> Str("card"), cardLast4 |-> Str("4242")]),
    !.flightPayments = Obj([mode |-> Str("credit-card"),
                            creditCard |-> Obj([amount |-> Num(240)])]) ]

CoreShapes(base) ==
  { [base EXCEPT !.agent = a, !.status = st, !.approvalStatus = ap] :
      a \in {Str("u1"), Str("g1"), Null},
      st \in {Str("pending"), Str("confirmed")},
      ap \in {Undefined, Str("rejected")} }

FlightShapes(base) ==
  { [base EXCEPT !.flights = fs, !.flight = f] :
      fs \in {Undefined, Obj([raw |-> Str("")]), Obj([raw |-> RevisionItinerary])},
      f \in {Undefined, Obj([flightClass |-> Str("business")]),
             Obj([itinerary |-> LegacyItinerary])} }

HotelShapes(base) ==
  { [base EXCEPT !.hotels = hs, !.hotel = h] :
      hs \in {Undefined} \cup Arrays({Hilton}),
      h \in {Undefined, LegacyHotel} }

VisaShapes(base) ==
  { [base EXCEPT !.visas = vs, !.visa = v] :
      vs \in {Undefined, Obj([count |-> Num(1)])}
             \cup {Obj([passengers |-> a]) : a \in Arrays({Passenger})}
             \cup Arrays({Passenger}),
      v \in {Undefined, LegacyVisa} }

LegacyTransports ==
  { Obj([transportType |-> ty, pickupLocation |-> pl, legs |-> legs]) :
      ty \in {Undefined, Str("Bus")},
      pl \in {Undefined, Str("Airport")},
      legs \in {Undefined} \cup Arrays({LegacyLeg}) }

TransportShapes(base) ==
  { [base EXCEPT !.transportation = tn, !.transport = tr] :
      tn \in {Undefined, Obj([count |-> Num(4)])}
             \cup {Obj([legs |-> a]) : a \in Arrays({RevisionLeg})},
      tr \in {Undefined} \cup LegacyTransports }

CostingShapes(base) ==
  { [base EXCEPT !.costing = c, !.pricing = pr] :
      c \in {Undefined}
            \cup { Obj([rows |-> r, totals |-> t]) :
                     r \in {Undefined} \cup Arrays({RevisionRow}),
                     t \in {Undefined, RevisionTotals} },
      pr \in {Undefined}
             \cup { Obj([table |-> r, totals |-> t]) :
                      r \in {Undefined} \cup Arrays({LegacyRow}),
                      t \in {Undefined, LegacyTotals} } }

PaymentShapes(base) ==
  { [base EXCEPT !.additionalServices = sv, !.paymentReceived = pr,
                 !.paymentDue = pd, !.payment = pm, !.flightPayments = fp] :
      sv \in {Undefined, Str("Ziyarat")},
      pr \in {Undefined, Obj([amount |-> Num(100), date |-> Str("2024-05-01")])},
      pd \in {Undefined, Obj([amount |-> Num(140)])},
      pm \in {Undefined, Obj([method |-> Str("card")])},
      fp \in {Undefined, Obj([mode |-> Str("installment"),
                              installment |-> Obj([ticketTotal |-> Num(900)])])} }

\* A stored value that new Date() does not parse.
UnparsableDate == Str("soon")

DateShapes(base) ==
  { [base EXCEPT !.date = d, !.departureDate = dd, !.returnDate = rd,
                 !.paymentReceived = pr, !.paymentDue = pd] :
      d \in {Str("2024-05-01"), UnparsableDate},
      dd \in {Undefined, Str("2024-05-09T18:30:00.000Z"), UnparsableDate},
      rd \in {Undefined, Str("2024-05-01"), UnparsableDate},
      pr \in {Undefined}
             \cup {Obj([amount |-> Num(100), date |-> x]) :
                     x \in {Str("2024-05-01"), UnparsableDate}},
      pd \in {Undefined}
             \cup {Obj([amount |-> Num(140), dueDate |-> x]) :
                     x \in {Str("2024-05-01"), UnparsableDate}} }

StoredShapes ==
  UNION { CoreShapes(base) \cup FlightShapes(base) \cup HotelShapes(base)
          \cup DateShapes(base)
          \cup VisaShapes(base) \cup TransportShapes(base)
          \cup CostingShapes(base) \cup PaymentShapes(base) :
          base \in {MinimalBooking, FullBooking} }

InitPdf ==
  /\ \E b \in StoredShapes : bookings = <<b>>
  /\ nextId = 2
  /\ req = NoRequest
  /\ res = NoResponse
  /\ inquiries = <<>>
  /\ webhookEnv = FALSE
  /\ webhookTasks = <<>>
  /\ adminApiKey = Undefined
  /\ agents = StoredAgents
  /\ registrations = NoRegistrations

NextPdf == \E caller \in Callers, id \in RequestIds : GetBookingPdf(caller, id)

SpecPdf == InitPdf /\ [][NextPdf]_vars

(***************************************************************************)
(* Properties.                                                             *)
(***************************************************************************)
\* The stored booking a request names.
Target == bookings[req.id]

\* A getBookingPdf request whose document was completed.
PdfDone == req.op = "getBookingPdf" /\ res.code = 200

\* The labels of the headings of a document.
Headings(doc) == {doc[i].t : i \in {j \in 1..Len(doc) : doc[j].kind = "heading"}}

\* The lines of a document that carry label t, in order.
LinesOf(doc, t) ==
  LET Has(l) == l.t = t IN SelectSeq(doc, Has)

\* The values of the lines of a document that carry label t, in order.
ValuesOf(doc, t) == [i \in 1..Len(LinesOf(doc, t)) |-> LinesOf(doc, t)[i].v]

Accepted == res.code \in {200, 201}

\* C1: a successful approveBooking leaves approvalStatus "approved" and
\* status "confirmed", a successful rejectBooking leaves "rejected" and
\* "cancelled", whatever the two fields held before; an approveBooking or
\* rejectBooking that does not succeed leaves the store as it was.
C1_ApproveRejectSetBoth ==
  [][ /\ req'.op = "approveBooking" =>
           IF res'.code = 200
           THEN /\ req'.id \in DOMAIN bookings
                /\ bookings' = [bookings EXCEPT ![req'.id] =
                      [@ EXCEPT !.approvalStatus = Str("approved"),
                                !.status = Str("confirmed")]]
           ELSE bookings' = bookings
      /\ req'.op = "rejectBooking" =>
           IF res'.code = 200
           THEN /\ req'.id \in DOMAIN bookings
                /\ bookings' = [bookings EXCEPT ![req'.id] =
                      [@ EXCEPT !.approvalStatus = Str("rejected"),
                                !.status = Str("cancelled")]]
           ELSE bookings' = bookings ]_vars

\* C1 witness: an admin approved a stored booking, which now holds
\* ("confirmed", "approved").
C1_Witness ==
  /\ req.op = "approveBooking" /\ res.code = 200
  /\ req.caller.role = "admin"
  /\ Target.status = Str("confirmed")
  /\ Target.approvalStatus = Str("approved")

\* C2 (as claimed): getBookingPdf answers with the PDF exactly when the
\* caller is admin or the booking's agent is the caller, and answers 403
\* without headers or rendering for every other caller.
C2_PdfOnlyAdminOrOwner ==
  (req.op = "getBookingPdf" /\ Exists(req.id)) =>
    IF req.caller.role = "admin" \/ StringOf(Target.agent) = req.caller.id
    THEN res.code = 200 /\ res.headers
    ELSE res.code = 403 /\ ~res.headers /\ res.doc = <<>>

\* C3: every stored pnr is absent or has exactly 6 characters, each an
\* upper-case letter or a digit.
C3_StoredPnrClean ==
  \A id \in DOMAIN bookings :
    \/ bookings[id].pnr = NoPnr
    \/ /\ Len(bookings[id].pnr) = 6
       /\ \A i \in 1..6 : bookings[id].pnr[i] \in UpperChars \cup DigitChars

\* C3 witness: updateBooking was given a pnr with a separator and lower-case
\* letters, and the booking holds the cleaned pnr.
C3_Witness ==
  /\ req.op = "updateBooking" /\ res.code = 200
  /\ req.body.pnr = DashedPnr
  /\ Target.pnr = <<"A", "B", "1", "2", "C", "3">>

\* C4 (as claimed): a non-empty PNR input is accepted by createBooking and
\* by updateBooking exactly when it has 6 characters once the
\* non-alphanumeric ones are stripped, and is answered 400 otherwise.
C4_AcceptedIffSixAlnum ==
  (/\ req.op \in {"createBooking", "updateBooking"}
   /\ req.body.pnr # NoPnr
   /\ res.code # 404) =>
    IF Len(StripNonAlnum(req.body.pnr)) = 6 THEN Accepted ELSE res.code = 400

\* The passenger list C5 describes.
ClaimedVisaPassengers(b) ==
  IF IsArray(Get(b.visas, "passengers")) THEN Get(b.visas, "passengers").items
  ELSE IF IsArray(b.visas) THEN b.visas.items
  ELSE IF Truthy(b.visa) THEN <<b.visa>>
  ELSE <<>>

\* C5 (as claimed): the document shows one passenger block per element of
\* visas.passengers, of the bare visas array, or of the one-element list of
\* the legacy visa object, and the Visa Details heading iff that list is
\* not empty.
C5_VisaListFromThreeShapes ==
  PdfDone =>
    /\ Len(LinesOf(res.doc, "Passenger")) = Len(ClaimedVisaPassengers(Target))
    /\ ("Visa Details" \in Headings(res.doc)) <=> (ClaimedVisaPassengers(Target) # <<>>)

\* A list that is present and not empty.
Populated(v) == IsArray(v) /\ Length(v) > 0

\* The leg list and the cost rows C6 describes: the revision list when it is
\* populated, the legacy list otherwise.
ClaimedList(revision, legacy) ==
  IF Populated(revision) THEN revision.items
  ELSE IF Populated(legacy) THEN legacy.items
  ELSE <<>>

\* The itinerary C6 describes.
ClaimedItinerary(b) ==
  IF Truthy(Get(b.flights, "raw")) THEN ItineraryLines(Get(b.flights, "raw"))
  ELSE IF Truthy(Get(b.flight, "itinerary")) THEN ItineraryLines(Get(b.flight, "itinerary"))
  ELSE <<>>

\* C6 (as claimed): itinerary, transport legs and cost rows are rendered
\* from the revision shape when it is populated and from the legacy shape
\* when the revision shape is absent or empty.
C6_RevisionElseLegacy ==
  PdfDone =>
    LET legs == ClaimedList(Get(Target.transportation, "legs"), Get(Target.transport, "legs"))
        rows == ClaimedList(Get(Target.costing, "rows"), Get(Target.pricing, "table"))
        text == ClaimedItinerary(Target)
    IN  /\ ValuesOf(res.doc, "Itinerary") = [i \in 1..Len(text) |-> Str(text[i])]
        /\ ValuesOf(res.doc, "Leg.From") = [i \in 1..Len(legs) |-> Or(Get(legs[i], "from"), Dash)]
        /\ ValuesOf(res.doc, "Row") =
             [i \in 1..Len(rows) |->
                Or(Get(rows[i], "label"), Or(Get(rows[i], "item"), Str("Item")))]

ClaimedHotels(b) ==
  IF Populated(b.hotels) THEN b.hotels.items
  ELSE IF Truthy(b.hotel) THEN <<b.hotel>>
  ELSE <<>>

\* C8: the document shows one "Hotel n" block per element of the hotels
\* list when that list is not empty, one block for the legacy hotel object
\* when hotels is absent or empty, and none otherwise; the blocks name the
\* hotels of that list in order, and the Hotel Details heading appears iff
\* the list is not empty.
C8_HotelList ==
  PdfDone =>
    LET hs == ClaimedHotels(Target)
    IN  /\ [i \in 1..Len(LinesOf(res.doc, "Hotel")) |-> LinesOf(res.doc, "Hotel")[i].n]
             = [i \in 1..Len(hs) |-> i]
        /\ ValuesOf(res.doc, "Hotel.Name") =
             [i \in 1..Len(hs) |-> Or(Get(hs[i], "name"), Or(Get(hs[i], "hotelName"), Dash))]
        /\ ("Hotel Details" \in Headings(res.doc)) <=> (hs # <<>>)

\* C8 witness: hotels is an empty list, a legacy hotel object exists, and
\* the document shows exactly one hotel block, named after the legacy hotel.
C8_Witness ==
  /\ PdfDone
  /\ Target.hotels = Arr(<<>>) /\ Target.hotel = LegacyHotel
  /\ ValuesOf(res.doc, "Hotel.Name") = <<Str("Anjum")>>
  /\ "Hotel Details" \in Headings(res.doc)

\* C9: the Transportation section is a leg table (one block per leg of the
\* resolved leg list) exactly when that list is not empty, a Type/Pickup
\* summary exactly when that list holds no leg and transportType or
\* pickupLocation is set, and is missing otherwise; the table and the summary
\* never appear together.
C9_TransportForms ==
  PdfDone =>
    LET table == Len(LinesOf(res.doc, "Total Legs")) > 0
        summary == Len(LinesOf(res.doc, "Type")) > 0
        heading == "Transportation Details" \in Headings(res.doc)
        legs == TransportLegs(Target)
        loose == \/ Truthy(Get(Target.transport, "transportType"))
                 \/ Truthy(Get(Target.transport, "pickupLocation"))
    IN  /\ ~(table /\ summary)
        /\ heading <=> (table \/ summary)
        /\ Len(LinesOf(res.doc, "Transportation Details")) <= 1
        /\ table <=> Populated(legs)
        /\ Len(LinesOf(res.doc, "Leg")) = (IF table THEN Length(legs) ELSE 0)
        /\ summary <=> (Len(LinesOf(res.doc, "Pickup")) > 0)
        /\ summary <=> (~Populated(legs) /\ loose)

\* C9 witness: no leg in either shape, a pickup location without a type, and
\* the document shows the summary and no leg.
C9_Witness ==
  /\ PdfDone
  /\ Get(Target.transportation, "legs") = Arr(<<>>)
  /\ Get(Target.transport, "legs") = Arr(<<>>)
  /\ ~Truthy(Get(Target.transport, "transportType"))
  /\ Truthy(Get(Target.transport, "pickupLocation"))
  /\ ValuesOf(res.doc, "Type") = <<Dash>>
  /\ ValuesOf(res.doc, "Pickup") = <<Str("Airport")>>
  /\ Len(LinesOf(res.doc, "Leg")) = 0

\* A booking without flight, hotel, visa, transport, costing,
\* additional-services or payment data.
NoSectionData(b) ==
  /\ ~Truthy(b.flights) /\ ~Truthy(b.flight) /\ b.pnr = NoPnr
  /\ ~Truthy(b.flightClass) /\ ~Truthy(b.departureCity) /\ ~Truthy(b.arrivalCity)
  /\ ~Truthy(b.hotels) /\ ~Truthy(b.hotel)
  /\ ~Truthy(b.visas) /\ ~Truthy(b.visa)
  /\ ~Truthy(b.transportation) /\ ~Truthy(b.transport)
  /\ ~Truthy(b.costing) /\ ~Truthy(b.pricing)
  /\ ~Truthy(b.additionalServices)
  /\ ~Truthy(b.paymentReceived) /\ ~Truthy(b.paymentDue)
  /\ ~Truthy(b.payment) /\ ~Truthy(b.flightPayments) /\ ~Truthy(b.paymentMethod)

\* C10 (as claimed): the document of a booking without section data has the
\* headings CUSTOMER INFORMATION and TRAVEL DATES and no other heading.
C10_NoEmptySectionHeading ==
  (PdfDone /\ NoSectionData(Target)) =>
    Headings(res.doc) = {"CUSTOMER INFORMATION", "TRAVEL DATES"}

\* C11: getBookingPdf answers 404 exactly when no booking has the requested
\* id, whoever the caller is (the authorization check is not reached), and a
\* 404 or 403 response carries no PDF header and no line of the document.
C11_ExistenceCheckFirst ==
  req.op = "getBookingPdf" =>
    /\ (res.code = 404) <=> ~Exists(req.id)
    /\ res.code = 403 => Exists(req.id) /\ req.caller.role # "admin"
    /\ res.code \in {403, 404} => ~res.headers /\ res.doc = <<>> /\ ~res.threw
    /\ res.headers => Exists(req.id)

\* C11 witness: a caller who owns no booking asks for the PDF of an id that
\* is not stored while another agent's booking is, and gets 404 without
\* headers.
C11_Witness ==
  /\ req.op = "getBookingPdf"
  /\ req.caller.id = "g1"
  /\ ~Exists(req.id)
  /\ \E i \in DOMAIN bookings : bookings[i].agent = Str("u1")
  /\ res.code = 404 /\ ~res.headers /\ res.doc = <<>>

\* A value that is present and that new Date() does not parse.
Unparsable(v) == Truthy(v) /\ ~ParsesAsDate(v)

Sections ==
  { "flights", "flight", "hotels", "hotel", "visas", "visa", "transportation",
    "transport", "costing", "flightPayments", "payment", "paymentReceived",
    "paymentDue" }

\* C13 (as claimed): a successful updateBooking leaves every section equal
\* to the section of the request body when the body provides it, and equal
\* to its value before the request when the body does not.
C13_SectionReplacedOrUntouched ==
  [][ (req'.op = "updateBooking" /\ res'.code = 200) =>
        \A sec \in Sections :
          bookings'[req'.id][sec] =
            IF req'.body[sec] # Undefined THEN req'.body[sec]
            ELSE bookings[req'.id][sec] ]_vars

\* C14: a successful updateBooking sets status to the body's status when the
\* body carries one and leaves it unchanged otherwise, and does the same for
\* approvalStatus, each whatever the other field holds; and an update by an
\* admin that carries a valid value for one of the two fields succeeds
\* whatever the stored value of the other is.
C14_StatusFieldsIndependent ==
  [][ req'.op = "updateBooking" =>
        /\ res'.code = 200 =>
              /\ bookings'[req'.id].status =
                    Coalesce(req'.body.status, bookings[req'.id].status)
              /\ bookings'[req'.id].approvalStatus =
                    IF req'.body.approvalStatus # Undefined
                    THEN req'.body.approvalStatus
                    ELSE bookings[req'.id].approvalStatus
        /\ ( /\ req'.id \in DOMAIN bookings
             /\ req'.caller.role = "admin"
             /\ req'.body \in StatusBodies ) => res'.code = 200 ]_vars

\* C14 witness: an approved booking was cancelled by an update that carries
\* status only, and is still approved.
C14_Witness ==
  /\ req.op = "updateBooking" /\ res.code = 200
  /\ req.body.status = Str("cancelled") /\ req.body.approvalStatus = Undefined
  /\ Target.status = Str("cancelled") /\ Target.approvalStatus = Str("approved")

\* The handlers that address one booking by id.
ByIdOps ==
  { "getBookingById", "getBookingPdf", "updateBooking", "deleteBooking",
    "approveBooking", "rejectBooking" }

\* The ids that were given to a booking and are no longer stored: ids are
\* given in order and a booking leaves the store only by deleteBooking.
DeletedIds == (1..(nextId - 1)) \ DOMAIN bookings

\* C15: a successful deleteBooking removes the booking from the store; a
\* deleted id stays out of the store through every later step, and every
\* later by-id request that names it answers 404.
C15_DeletedForGood ==
  [][ /\ (req'.op = "deleteBooking" /\ res'.code = 200)
           => req'.id \in DOMAIN bookings /\ req'.id \notin DOMAIN bookings'
      /\ \A id \in DeletedIds :
           /\ id \notin DOMAIN bookings'
           /\ (req'.op \in ByIdOps /\ req'.id = id) => res'.code = 404 ]_vars

\* C15 witness: an admin asks to approve a booking that was deleted, and
\* gets 404.
C15_Witness ==
  /\ req.id \in DeletedIds
  /\ req.op = "approveBooking" /\ req.caller.role = "admin"
  /\ res.code = 404

\* C16 (as claimed): every page of a completed document carries the footer;
\* a document has at least its first page, so it holds at least one footer
\* line, and that line is the contact-details line of addFooter.
C16_FooterOnEveryPage ==
  PdfDone =>
    \E i \in 1..Len(res.doc) : res.doc[i] = FooterLines[1]

\* A step of createInquiry: the request or the response changes, or an
\* inquiry is stored (a step that leaves all three as they were is a webhook
\* forward being answered).
CreateInquiryStep ==
  /\ req'.op = "createInquiry"
  /\ <<req.op, req.body, res, inquiries>>' # <<req.op, req.body, res, inquiries>>

\* C17: a createInquiry step that saves answers 201 with the inquiry and
\* starts exactly one forward, for that inquiry, whether or not the webhook
\* is configured; one that does not save answers 500 and starts none; a
\* forward is started in no other step; and a step in which a forward is
\* answered changes one forward from started to success or failed and
\* nothing else: not the response, not the stored inquiries, and it starts
\* no further forward.
C17_WebhookAfterSaveOnce ==
  [][ /\ inquiries' # inquiries =>
           /\ CreateInquiryStep
           /\ inquiries' = Append(inquiries, NewInquiry(req'.body))
           /\ res'.code = 201 /\ res'.data = NewInquiry(req'.body)
           /\ Len(webhookTasks') = Len(webhookTasks) + 1
           /\ SubSeq(webhookTasks', 1, Len(webhookTasks)) = webhookTasks
           /\ webhookTasks'[Len(webhookTasks')].inquiry = Len(inquiries')
           /\ webhookTasks'[Len(webhookTasks')].state \in {"started", "skipped"}
      /\ (CreateInquiryStep /\ inquiries' = inquiries) =>
           res'.code = 500 /\ webhookTasks' = webhookTasks
      /\ Len(webhookTasks') # Len(webhookTasks) => inquiries' # inquiries
      /\ (webhookTasks' # webhookTasks /\ inquiries' = inquiries) =>
           /\ res' = res /\ req' = req
           /\ \E i \in DOMAIN webhookTasks :
                /\ webhookTasks[i].state = "started"
                /\ webhookTasks'[i].state \in {"success", "failed"}
                /\ \A j \in DOMAIN webhookTasks \ {i} :
                     webhookTasks'[j] = webhookTasks[j] ]_vars

\* C17 witness: the forward of the first inquiry failed; the response on
\* record is the 201 of the second createInquiry and both inquiries are
\* stored, each with one forward.
C17_Witness ==
  /\ Len(inquiries) = 2 /\ Len(webhookTasks) = 2
  /\ webhookTasks[1].state = "failed" /\ webhookTasks[1].inquiry = 1
  /\ webhookTasks[2].inquiry = 2
  /\ req.op = "createInquiry" /\ res.code = 201 /\ res.data = inquiries[2]

\* C18 (as claimed): approveBooking and rejectBooking by a caller who is not
\* admin answer 403 on a stored booking and leave the store unchanged, and
\* no request of a caller who is not admin changes the approvalStatus of a
\* booking that is stored before and after it.
C18_ApprovalOnlyByAdmin ==
  [][ req'.caller.role # "admin" =>
        /\ ( /\ req'.op \in {"approveBooking", "rejectBooking"}
             /\ req'.id \in DOMAIN bookings )
             => res'.code = 403 /\ bookings' = bookings
        /\ \A id \in DOMAIN bookings \cap DOMAIN bookings' :
             bookings'[id].approvalStatus = bookings[id].approvalStatus ]_vars

\* C19 (as claimed): updateBooking on a stored booking is refused with 403
\* exactly when the caller is not admin, the booking has an owning agent and
\* that agent is not the caller; a booking without an owning agent may be
\* updated by any caller.
C19_UpdatePermittedCases ==
  [][ (req'.op = "updateBooking" /\ req'.id \in DOMAIN bookings) =>
        ( res'.code # 403 <=>
            \/ req'.caller.role = "admin"
            \/ bookings[req'.id].agent = Str(req'.caller.id)
            \/ ~Truthy(bookings[req'.id].agent) ) ]_vars

\* C20 (as claimed): on a stored booking that has an owning agent,
\* getBookingById, updateBooking and deleteBooking answer 403 without data
\* and leave the store unchanged when the caller is neither admin nor the
\* owner, and do not answer 403 when the caller is the owner.
C20_OwnerOnlyAndOwnerAlways ==
  [][ ( /\ req'.op \in {"getBookingById", "updateBooking", "deleteBooking"}
        /\ req'.id \in DOMAIN bookings
        /\ Truthy(bookings[req'.id].agent) ) =>
        /\ ( /\ req'.caller.role # "admin"
             /\ bookings[req'.id].agent # Str(req'.caller.id) )
             => /\ res'.code = 403 /\ res'.data = Undefined
                /\ bookings' = bookings
        /\ bookings[req'.id].agent = Str(req'.caller.id) => res'.code # 403 ]_vars

\* The ids of the documents a list response carries, in its order.
ListedIds == [i \in DOMAIN res.data.items |-> res.data.items[i]._id.n]

\* The stored inquiries whose assignedAgent is the caller.
AssignedTo(caller) ==
  {i \in DOMAIN inquiries :
     inquiries[i] # Deleted /\ inquiries[i].assignedAgent = Str(caller.id)}

\* C21 (as claimed): getInquiries answers an agent with exactly the stored
\* inquiries whose assignedAgent is the caller and an admin with all of
\* them, and getInquiryById on a stored inquiry answers an agent 200 with
\* that inquiry if and only if its assignedAgent is the caller, and 403
\* otherwise.
C21_AgentSeesOwnInquiries ==
  /\ req.op = "getInquiries" =>
       /\ res.code = 200
       /\ {ListedIds[i] : i \in DOMAIN ListedIds} =
            IF req.caller.role = "agent" THEN AssignedTo(req.caller)
            ELSE DOMAIN inquiries
       /\ \A i, j \in DOMAIN ListedIds : i # j => ListedIds[i] # ListedIds[j]
  /\ (req.op = "getInquiryById" /\ req.caller.role = "agent"
        /\ FindInquiry(req.id) # 0) =>
       IF FindInquiry(req.id) \in AssignedTo(req.caller)
       THEN res.code = 200 /\ res.data._id = ObjectId(FindInquiry(req.id))
       ELSE res.code = 403 /\ res.data = Undefined

\* C22 (as claimed): a booking that createBooking stores for a caller whose
\* role is not admin is owned by that caller, whatever agent the body names.
C22_BodyAgentOnlyForAdmin ==
  [][ ( /\ req'.op = "createBooking" /\ res'.code = 201
        /\ req'.caller.role # "admin" ) =>
        bookings'[nextId].agent = Str(req'.caller.id) ]_vars

\* C23 (as claimed): a request of a caller with role agent leaves every
\* stored inquiry whose assignedAgent is not the caller as it was, and
\* changes of an inquiry assigned to the caller nothing but the status.
C23_AgentWritesOwnStatusOnly ==
  [][ req'.caller.role = "agent" =>
        \A i \in DOMAIN inquiries :
          inquiries[i] # Deleted =>
            IF inquiries[i].assignedAgent # Str(req'.caller.id)
            THEN inquiries'[i] = inquiries[i]
            ELSE /\ inquiries'[i] # Deleted
                 /\ [inquiries'[i] EXCEPT !.status = inquiries[i].status]
                      = inquiries[i] ]_vars

\* An assignInquiryToAgent step that answers with the success response.
AssignSucceeds ==
  /\ req'.op = "assignInquiryToAgent"
  /\ res'.code = 200
  /\ res'.msg = "Inquiry assigned to agent successfully"

\* C24 (as claimed): a successful assignInquiryToAgent leaves the status of
\* an inquiry that was stored with a status other than pending as it was,
\* whether or not a booking is created.
C24_StatusOnlyFromPending ==
  [][ AssignSucceeds =>
        LET at == res'.data._id.n
        IN (at \in DOMAIN inquiries /\ inquiries[at].status # Str("pending")) =>
             inquiries'[at].status = inquiries[at].status ]_vars

\* The request of the step passes the checks that come before the booking:
\* the caller is admin, the body names an agent that exists, and the inquiry
\* is stored or can be created from the inquiryData of the body.
ReachesBooking ==
  /\ req'.op = "assignInquiryToAgent"
  /\ req'.caller.role = "admin"
  /\ AgentExists(req'.body.assignedAgent)
  /\ \/ FindInquiry(req'.id) # 0
     \/ /\ Truthy(req'.body.inquiryData)
        /\ InquirySchemaValid(InquiryFromData(req'.id, req'.body.inquiryData))

\* C25: an assignInquiryToAgent request that passes the checks before the
\* booking answers with the success response and saves the inquiry with
\* assignedAgent set to the requested agent, whether it creates a booking,
\* fails to create one or is told not to; it creates none when createBooking
\* is false; and a booking it creates has status pending, approvalStatus
\* pending and the assigned agent as its agent.
C25_AssignmentIndependentOfBooking ==
  [][ ReachesBooking =>
        /\ AssignSucceeds
        /\ inquiries'[res'.data._id.n].assignedAgent = req'.body.assignedAgent
        /\ res'.data._id.n =
             IF FindInquiry(req'.id) # 0 THEN FindInquiry(req'.id)
             ELSE Len(inquiries) + 1
        /\ req'.body.createBooking = Bool(FALSE) => bookings' = bookings
        /\ bookings' # bookings =>
             /\ DOMAIN bookings' = DOMAIN bookings \cup {nextId}
             /\ \A id \in DOMAIN bookings : bookings'[id] = bookings[id]
             /\ bookings'[nextId].status = Str("pending")
             /\ bookings'[nextId].approvalStatus = Str("pending")
             /\ bookings'[nextId].agent = req'.body.assignedAgent ]_vars

\* C25 witness: the admin asked for the assignment with a booking, the
\* booking could not be created, and the answer is the success response for
\* the inquiry, stored as assigned to the requested agent.
C25_Witness ==
  /\ req.op = "assignInquiryToAgent"
  /\ req.body.createBooking # Bool(FALSE)
  /\ res.code = 200 /\ res.msg = "Inquiry assigned to agent successfully"
  /\ bookings = <<>>
  /\ inquiries[res.data._id.n].assignedAgent = req.body.assignedAgent
  /\ inquiries[res.data._id.n].assignedAgent = Str("u1")

\* C28 (as claimed): an assignInquiryToAgent request that is answered 400,
\* 403 or 404 leaves the stored inquiries and bookings as they were.
C28_ErrorLeavesStoresUnchanged ==
  [][ (req'.op = "assignInquiryToAgent" /\ res'.code \in {400, 403, 404}) =>
        inquiries' = inquiries /\ bookings' = bookings ]_vars

\* A step of manualForwardInquiryWebhook: the request on record is its
\* request and the step is not the answer to a forward in flight (which
\* changes the state of a forward and leaves the request as it was).
ManualForwardStep ==
  /\ req'.op = "manualForwardInquiryWebhook"
  /\ ~(Len(webhookTasks') = Len(webhookTasks) /\ webhookTasks' # webhookTasks)

\* C26: manualForwardInquiryWebhook answers 401 "Unauthorized", the same for
\* stored and unknown inquiries, and forwards nothing unless ADMIN_API_KEY is
\* configured and the X-Api-Key header equals it; with the valid key it
\* answers 404 and forwards nothing for an unknown inquiry, and for a stored
\* one calls the forward once, for that inquiry, and answers 200 when the
\* forward succeeded and 502 when it failed or was skipped.
C26_ForwardOnlyWithAdminKey ==
  [][ ManualForwardStep =>
        IF ~(Truthy(adminApiKey) /\ req'.body.apiKey = adminApiKey)
        THEN res' = Message(401, "Unauthorized") /\ webhookTasks' = webhookTasks
        ELSE IF FindInquiry(req'.id) = 0
        THEN res'.code = 404 /\ webhookTasks' = webhookTasks
        ELSE /\ Len(webhookTasks') = Len(webhookTasks) + 1
             /\ SubSeq(webhookTasks', 1, Len(webhookTasks)) = webhookTasks
             /\ webhookTasks'[Len(webhookTasks')].inquiry = FindInquiry(req'.id)
             /\ webhookTasks'[Len(webhookTasks')].by = "manualForward"
             /\ webhookTasks'[Len(webhookTasks')].state \in {"success", "failed", "skipped"}
             /\ webhookTasks'[Len(webhookTasks')].state = "skipped" <=> ~webhookEnv
             /\ res'.code =
                  IF webhookTasks'[Len(webhookTasks')].state = "success"
                  THEN 200 ELSE 502 ]_vars

\* C26 witness: with the configured key in the header the second inquiry,
\* named by its externalId, was forwarded and the request answered 200,
\* while the forward createInquiry started for it is still in flight.
C26_Witness ==
  /\ req.op = "manualForwardInquiryWebhook"
  /\ req.id = Str("pg-18")
  /\ adminApiKey = Str("k1") /\ req.body.apiKey = Str("k1")
  /\ res.code = 200
  /\ Len(webhookTasks) = 3
  /\ webhookTasks[2] = WebhookTask(2, "createInquiry", "started")
  /\ webhookTasks[3] = WebhookTask(2, "manualForward", "success")

\* No two agent records carry the same email.
UniqueEmails ==
  \A i, j \in DOMAIN agents : i # j => agents[i].email # agents[j].email

\* Both calls have answered, for the same email, and each of them had found
\* the email free: they ran concurrently for a new email.
RacedForNewEmail(p, q) ==
  /\ p # q
  /\ registrations[p].pc = "done" /\ registrations[q].pc = "done"
  /\ registrations[p].free /\ registrations[q].free
  /\ registrations[p].body.email = registrations[q].body.email

\* C27: under every interleaving of registerAgent calls no two agent records
\* carry the same email; a call without upsert for an email that is already
\* registered leaves the Agent collection as it is and, once it answers,
\* answers 409; two calls that raced for the same new email answer 201 and
\* 409, one each, and one record with that email exists; and no call answers
\* 500.
C27_AgentEmailsUnique ==
  [][ /\ UniqueEmails'
      /\ \A p \in Processes :
           /\ registrations'[p].code \in {0, 200, 201, 400, 409}
           /\ ( /\ registrations'[p] # registrations[p]
                /\ JoiValid(registrations'[p].body)
                /\ ~registrations'[p].body.upsert
                /\ WithEmail(registrations'[p].body.email) # {} ) =>
                /\ agents' = agents
                /\ registrations'[p].pc = "done" => registrations'[p].code = 409
      /\ \A p, q \in Processes :
           RacedForNewEmail(p, q)' =>
             /\ {registrations'[p].code, registrations'[q].code} = {201, 409}
             /\ Cardinality({i \in DOMAIN agents' :
                               agents'[i].email = registrations'[p].body.email}) = 1 ]_vars

\* C27 witness: both calls found new@x.com free before either created the
\* agent; one answered 201, the other 409, and one agent has the email.
C27_Witness ==
  /\ RacedForNewEmail(1, 2)
  /\ registrations[1].body.email = Str("new@x.com")
  /\ registrations[1].code = 409 /\ registrations[2].code = 201
  /\ Cardinality(WithEmail(Str("new@x.com"))) = 1

====
